---------------------------- MODULE Spec2Model ----------------------------
(***************************************************************************)
(* A model of the two audio splitters of audio-slicer-pro:                 *)
(*   WebAudioSplitter.vue  (variant "WA", decode + WAV re-encode)          *)
(*   FFmpegSplitter.vue    (variant "FF", stream copy through FFmpeg.wasm) *)
(* The state is the reactive state of one mounted component; every action  *)
(* is one event handler (or one timer callback, or one resumption of an    *)
(* async function) run to completion, as the browser's event loop runs it. *)
(*                                                                         *)
(* Times and pixel positions are exact rationals <<n, d>> in lowest terms  *)
(* (d > 0): the code's arithmetic is modelled as real arithmetic, except   *)
(* in the specification of the conversions (SpecConvert), which rounds     *)
(* every operation as binary floating point does.                          *)
(***************************************************************************)
EXTENDS Integers, Sequences, FiniteSets, TLC

(***************************************************************************)
(* Bounds of the model.                                                    *)
(***************************************************************************)
\* Split-point identifiers are issued up to this value.
MaxSplitId == 2
\* At most this many long-press timeouts are pending at once.
MaxTimers == 2
\* At most this many loadAudioData calls are in flight at once (WA).
MaxLoads == 2
\* The segment deriver is exercised on at most this many split points.
MaxDeriverPoints == 3
\* At most this many export batches are started.
MaxExports == 1

(***************************************************************************)
(* Program constants.                                                      *)
(***************************************************************************)
\* const tolerance = 15
Tolerance == 15

(***************************************************************************)
(* Exact rational arithmetic.                                              *)
(***************************************************************************)
Abs(i) == IF i < 0 THEN -i ELSE i

RECURSIVE GCD(_, _)
GCD(a, b) == IF b = 0 THEN a ELSE GCD(b, a % b)

\* n/d in lowest terms with a positive denominator (d # 0).
Norm(n, d) ==
  LET s == IF d < 0 THEN -1 ELSE 1
      g == GCD(Abs(n), Abs(d))
  IN  <<(s * n) \div g, (s * d) \div g>>

R(i) == <<i, 1>>
RAdd(a, b) == Norm(a[1] * b[2] + b[1] * a[2], a[2] * b[2])
RSub(a, b) == Norm(a[1] * b[2] - b[1] * a[2], a[2] * b[2])
RMul(a, b) == Norm(a[1] * b[1], a[2] * b[2])
RDiv(a, b) == Norm(a[1] * b[2], a[2] * b[1])
RLt(a, b) == a[1] * b[2] < b[1] * a[2]
RLe(a, b) == a[1] * b[2] <= b[1] * a[2]
RAbs(a) == <<Abs(a[1]), a[2]>>
RMin(a, b) == IF RLt(b, a) THEN b ELSE a
RMax(a, b) == IF RLt(a, b) THEN b ELSE a

\* The 0.1 s of the "avoid too short segments" tests.
MinSegment == <<1, 10>>

(***************************************************************************)
(* The environment: the files the user can select, the widths the          *)
(* rendering surface can take, the pointer positions events can carry.     *)
(***************************************************************************)
Variants == {"WA", "FF"}
Files == {1, 2}
FileDuration(f) == IF f = 1 THEN R(10) ELSE R(4)
Widths == {20, 40}
\* event.clientX - rect.left: positions left of, on and right of the surface
MouseXs == {-5, 10, 50}

\* A faulty clamp without the upper limit (fault injection for the drag).
Clamp_LowerOnly(x, w) == RMax(R(0), x)

(***************************************************************************)
(* Pure helpers of the handlers.                                           *)
(***************************************************************************)
\* Math.max(0, Math.min(x, width))
Clamp(x, w) == RMax(R(0), RMin(x, R(w)))

\* getTimeFromX: (x / width) * duration, 0 when the duration is 0
getTimeFromX(x, w, d) ==
  IF d = R(0) THEN R(0) ELSE RMul(RDiv(x, R(w)), d)

\* (point.time / duration.value) * width, the recomputation of x
getXFromTime(t, w, d) == RMul(RDiv(t, d), R(w))

\* A faulty hit test that only finds a point exactly under the pointer
\* (fault injection for the proximity rule).
FindNear_Exact(pts, cx) ==
  LET hits == {i \in 1..Len(pts) : pts[i].x = cx}
  IN  IF hits = {} THEN 0 ELSE CHOOSE i \in hits : \A j \in hits : i <= j

\* splitPoints.value.find(point => Math.abs(point.x - clampedX) < tolerance):
\* the index of the first such point, 0 when there is none
FindNear(pts, cx) ==
  LET hits == {i \in 1..Len(pts) : RLt(RAbs(RSub(pts[i].x, cx)), R(Tolerance))}
  IN  IF hits = {} THEN 0 ELSE CHOOSE i \in hits : \A j \in hits : i <= j

\* findIndex(p => p.id === id), 0 for -1
FindIndexById(pts, id) ==
  LET hits == {i \in 1..Len(pts) : pts[i].id = id}
  IN  IF hits = {} THEN 0 ELSE CHOOSE i \in hits : \A j \in hits : i <= j

\* filter(point => point.id !== id)
FilterOutId(pts, id) == SelectSeq(pts, LAMBDA p : p.id # id)

\* Array.prototype.sort((a, b) => a.time - b.time): a stable sort
RECURSIVE InsertByTime(_, _)
InsertByTime(p, s) ==
  IF s = <<>> THEN <<p>>
  ELSE IF RLt(p.time, Head(s).time) THEN <<p>> \o s
  ELSE <<Head(s)>> \o InsertByTime(p, Tail(s))

RECURSIVE SortByTime(_)
SortByTime(s) ==
  IF s = <<>> THEN <<>>
  ELSE InsertByTime(s[Len(s)], SortByTime(SubSeq(s, 1, Len(s) - 1)))

\* [...splitPoints.value].sort((a, b) => a.x - b.x)
RECURSIVE InsertByX(_, _)
InsertByX(p, s) ==
  IF s = <<>> THEN <<p>>
  ELSE IF RLt(p.x, Head(s).x) THEN <<p>> \o s
  ELSE <<Head(s)>> \o InsertByX(p, Tail(s))

RECURSIVE SortByX(_)
SortByX(s) ==
  IF s = <<>> THEN <<>>
  ELSE InsertByX(s[Len(s)], SortByX(SubSeq(s, 1, Len(s) - 1)))

Seg(a, b) == [start |-> a, end |-> b]

\* The candidates between adjacent points of a sorted list, from index i on.
RECURSIVE MiddleWA(_, _)
MiddleWA(sp, i) ==
  IF i >= Len(sp) THEN <<>>
  ELSE (IF RLt(MinSegment, RSub(sp[i + 1].time, sp[i].time))
        THEN <<Seg(sp[i].time, sp[i + 1].time)>> ELSE <<>>)
       \o MiddleWA(sp, i + 1)

\* WebAudioSplitter updateSegments: the new audioSegments.value
updateSegmentsWA(pts, d) ==
  IF Len(pts) = 0
  THEN IF RLt(R(0), d) THEN <<Seg(R(0), d)>> ELSE <<>>
  ELSE LET sortedPoints == SortByX(pts)
           lastPoint == sortedPoints[Len(sortedPoints)]
       IN  (IF RLt(MinSegment, sortedPoints[1].time)
            THEN <<Seg(R(0), sortedPoints[1].time)>> ELSE <<>>)
           \o MiddleWA(sortedPoints, 1)
           \o (IF RLt(lastPoint.time, RSub(d, MinSegment))
               THEN <<Seg(lastPoint.time, d)>> ELSE <<>>)

\* A faulty deriver that forgets the segment after the last point
\* (fault injection for the deriver contract).
updateSegmentsFF_NoTail(pts, d, old) ==
  IF d = R(0) THEN old
  ELSE LET sortedPoints == SortByTime(pts)
           n == Len(sortedPoints)
       IN  IF n = 0 THEN <<Seg(R(0), d)>>
           ELSE <<Seg(R(0), sortedPoints[1].time)>>
                \o [i \in 1..(n - 1) |->
                      Seg(sortedPoints[i].time, sortedPoints[i + 1].time)]

\* FFmpegSplitter updateSegments: old is the list before the call
updateSegmentsFF(pts, d, old) ==
  IF d = R(0) THEN old
  ELSE LET sortedPoints == SortByTime(pts)
           n == Len(sortedPoints)
       IN  IF n = 0 THEN <<Seg(R(0), d)>>
           ELSE <<Seg(R(0), sortedPoints[1].time)>>
                \o [i \in 1..(n - 1) |->
                      Seg(sortedPoints[i].time, sortedPoints[i + 1].time)]
                \o <<Seg(sortedPoints[n].time, d)>>

updateSegments(v, pts, d, old) ==
  IF v = "WA" THEN updateSegmentsWA(pts, d) ELSE updateSegmentsFF(pts, d, old)

VARIABLES
  variant,            \* which component is mounted
  audioFile,          \* audioFile / audioUrl: the selected file, 0 = none
  duration,           \* duration.value
  width,              \* canvasRef.width (WA), timelineRef.clientWidth (FF)
  splitPoints,        \* splitPoints.value: sequence of [id, time, x]
  audioSegments,      \* audioSegments.value: sequence of [start, end]
  nextSplitId,        \* let nextSplitId
  isLoading,          \* isLoading.value
  audioBuffer,        \* WA audioBuffer.value: the decoded file, 0 = null
  ffmpegLoaded,       \* FF ffmpegLoaded.value
  isDragging,         \* isDragging.value
  draggedSplitPoint,  \* draggedSplitPoint.value: a point id, 0 = null
  longPressTimer,     \* longPressTimer.value: a timeout handle, 0 = null
  longPressStarted,   \* longPressStarted.value
  timers,             \* pending setTimeout callbacks: set of [h, pt]
  metaPending,        \* file whose loadedmetadata event is due, 0 = none
  loads,              \* WA: loadAudioData calls awaiting the decode
  hoveredSplitPoint,  \* hoveredSplitPoint.value: a point id, 0 = null
  lastEvent,          \* history: the last handler that ran
  isProcessing,       \* FF isProcessing.value
  processingMessage,  \* FF processingMessage.value (which message, "" = none)
  msgTimers,          \* FF: pending timeouts that clear processingMessage
  batches,            \* export batches in flight, in the order they started
  exportCount,        \* number of export batches started so far
  downloads,          \* log of the downloads triggered (a.click()) since the
                      \* last time a batch started with no other in flight
  fs,                 \* FF: files in the engine's virtual filesystem
  failureAlerts       \* WA: number of export-failure alerts shown

vars == <<hoveredSplitPoint, variant, audioFile, duration, width,
         splitPoints, audioSegments,
          nextSplitId, isLoading, audioBuffer, ffmpegLoaded, isDragging,
          draggedSplitPoint, longPressTimer, longPressStarted, timers,
          metaPending, loads, lastEvent, isProcessing, processingMessage,
          msgTimers, batches, exportCount, downloads, fs, failureAlerts>>

\* The state of the export and of the FFmpeg status message.
exportVars == <<isProcessing, processingMessage, msgTimers, batches,
                exportCount, downloads, fs, failureAlerts>>

(***************************************************************************)
(* What the handlers compute.                                              *)
(***************************************************************************)
Point(i, t, x) == [id |-> i, time |-> t, x |-> x]

\* A faulty click that removes every point within the tolerance instead of
\* the one that find() returned (fault injection for the toggle law).
ClickPoints_RemoveAllNear(pts, cx, w, d, nid) ==
  IF FindNear(pts, cx) # 0
  THEN SelectSeq(pts, LAMBDA p : ~RLt(RAbs(RSub(p.x, cx)), R(Tolerance)))
  ELSE SortByTime(Append(pts, Point(nid, getTimeFromX(cx, w, d), cx)))

\* onCanvasClick / onTimelineClick: the new splitPoints.value after a click
\* at clamped pixel cx (nid is nextSplitId)
ClickPoints(pts, cx, w, d, nid) ==
  LET i == FindNear(pts, cx)
  IN  IF i # 0
      THEN FilterOutId(pts, pts[i].id)
      ELSE SortByTime(Append(pts, Point(nid, getTimeFromX(cx, w, d), cx)))

\* A faulty drag that does not sort after the replacement
\* (fault injection for the ordering invariant).
DragPoints_NoSort(pts, id, cx, w, d) ==
  LET i == FindIndexById(pts, id)
  IN  IF i = 0 THEN pts
      ELSE [pts EXCEPT ![i] = Point(pts[i].id, getTimeFromX(cx, w, d), cx)]

\* A faulty drag that moves the marker's pixel but keeps its old time
\* (fault injection for the drag gesture).
DragPoints_KeepTime(pts, id, cx, w, d) ==
  LET i == FindIndexById(pts, id)
  IN  IF i = 0 THEN pts
      ELSE SortByTime([pts EXCEPT ![i] = Point(pts[i].id, pts[i].time, cx)])

\* onMouseMove while dragging: the new splitPoints.value
DragPoints(pts, id, cx, w, d) ==
  LET i == FindIndexById(pts, id)
  IN  IF i = 0 THEN pts
      ELSE SortByTime([pts EXCEPT ![i] =
                         Point(pts[i].id, getTimeFromX(cx, w, d), cx)])

\* splitPoints.value.map(point => ({...point, x: (point.time / duration) * width}))
RecomputeX(pts, w, d) ==
  [i \in 1..Len(pts) |->
     Point(pts[i].id, pts[i].time, getXFromTime(pts[i].time, w, d))]

\* setTimeout returns a handle that no pending timeout carries
FreshHandle ==
  CHOOSE h \in 1..(MaxTimers + 1) :
    /\ h # longPressTimer
    /\ \A t \in timers : t.h # h
    /\ \A g \in 1..(h - 1) : g = longPressTimer \/ \E t \in timers : t.h = g

\* A faulty clearTimeout that cancels nothing
\* (fault injection for the tap gesture).
ClearTimeout_Noop(ts, h) == ts

\* clearTimeout(longPressTimer.value)
ClearTimeout(ts, h) == {t \in ts : t.h # h}

\* An event of the history variable lastEvent.  phase tells how far a
\* gesture has come: 1 a press on a marker from the idle state (pt: the
\* marker), 2 its timeout has fired, 3 a move of that drag, 4 the release of
\* phase 1 (pt: its pixel if it removed the pressed marker at that marker's
\* pixel, -1 otherwise), 5 the release of a drag that moved, 6 a press on an
\* empty location at the pixel of the removal of phase 4 (pt: that pixel);
\* 0 otherwise (op "mousedown", pt 0: any other press on an empty location).
Ev(op, pt, phase, out) ==
  [op |-> op, pt |-> pt, phase |-> phase, out |-> out]

\* Events whose occurrence no property needs to tell apart.
Other == Ev("other", 0, 0, "none")

Ids(pts) == {pts[i].id : i \in 1..Len(pts)}

\* The gesture machine is idle: not dragging, no timeout pending.
Idle == ~isDragging /\ timers = {}

\* The timeline or canvas is rendered and receives pointer events:
\* v-if="audioUrl" / v-if="audioFile", v-show="!isLoading" / v-else.
SurfaceShown == audioFile # 0 /\ ~isLoading

\* The early return of onCanvasClick / onTimelineClick is not taken.
ClickGuard ==
  IF variant = "WA" THEN audioBuffer # 0 ELSE duration # R(0)

\* No export has run; FF: initFFmpeg has set its first message.
InitExportVars ==
  /\ isProcessing = FALSE
  /\ processingMessage = IF variant = "FF" THEN "loading" ELSE ""
  /\ msgTimers = 0
  /\ batches = <<>>
  /\ exportCount = 0
  /\ downloads = <<>>
  /\ fs = {}
  /\ failureAlerts = 0

(***************************************************************************)
(* The initial state: the component has just been mounted.                 *)
(***************************************************************************)
Init ==
  /\ variant \in Variants
  /\ audioFile = 0
  /\ duration = R(0)
  /\ width \in Widths
  /\ splitPoints = <<>>
  /\ audioSegments = <<>>
  /\ nextSplitId = 1
  /\ isLoading = (variant = "FF")     \* onMounted: initFFmpeg is under way
  /\ audioBuffer = 0
  /\ ffmpegLoaded = FALSE
  /\ isDragging = FALSE
  /\ draggedSplitPoint = 0
  /\ hoveredSplitPoint = 0
  /\ longPressTimer = 0
  /\ longPressStarted = FALSE
  /\ timers = {}
  /\ metaPending = 0
  /\ loads = <<>>
  /\ lastEvent = Other
  /\ InitExportVars

(***************************************************************************)
(* Pointer handlers.                                                       *)
(***************************************************************************)
onMouseDown(mx) ==
  /\ SurfaceShown
  /\ LET clampedX == Clamp(R(mx), width)
         i == FindNear(splitPoints, clampedX)
     IN  IF i # 0
         THEN /\ Cardinality(timers) < MaxTimers
              /\ longPressStarted' = FALSE
              /\ longPressTimer' = FreshHandle
              /\ timers' = timers \cup
                     {[h |-> FreshHandle, pt |-> splitPoints[i].id]}
              /\ lastEvent' = IF Idle
                               THEN Ev("mousedown", splitPoints[i].id, 1, "none")
                               ELSE Other
         ELSE /\ UNCHANGED <<longPressStarted, longPressTimer, timers>>
              /\ lastEvent' = IF /\ lastEvent.phase = 4
                                  /\ lastEvent.out = "removed"
                                  /\ lastEvent.pt = clampedX[1]
                               THEN Ev("mousedown", clampedX[1], 6, "none")
                               ELSE Ev("mousedown", 0, 0, "none")
  /\ UNCHANGED <<variant, audioFile, duration, width, splitPoints,
                 audioSegments, nextSplitId, isLoading, audioBuffer,
                 ffmpegLoaded, isDragging, draggedSplitPoint, metaPending,
                 loads>>
  /\ UNCHANGED hoveredSplitPoint
  /\ UNCHANGED exportVars

\* The callback handed to setTimeout(..., 500) by onMouseDown.
LongPressFire(t) ==
  /\ t \in timers
  /\ timers' = timers \ {t}
  /\ longPressStarted' = TRUE
  /\ isDragging' = TRUE
  /\ draggedSplitPoint' = t.pt
  /\ lastEvent' = IF lastEvent.phase = 1 /\ t.h = longPressTimer
                   THEN Ev("timer", t.pt, 2, "none")
                   ELSE Other
  /\ UNCHANGED <<variant, audioFile, duration, width, splitPoints,
                 audioSegments, nextSplitId, isLoading, audioBuffer,
                 ffmpegLoaded, longPressTimer, metaPending, loads>>
  /\ UNCHANGED hoveredSplitPoint
  /\ UNCHANGED exportVars

\* A faulty move handler whose hover branch drops the pending timeouts
\* (fault injection for the hover).
onMouseMove_HoverDisarms(mx) ==
  /\ SurfaceShown
  /\ LET clampedX == Clamp(R(mx), width)
     IN  IF /\ isDragging
            /\ draggedSplitPoint # 0
            /\ FindIndexById(splitPoints, draggedSplitPoint) # 0
         THEN /\ splitPoints' = DragPoints(splitPoints, draggedSplitPoint,
                                           clampedX, width, duration)
              /\ audioSegments' = updateSegments(variant, splitPoints',
                                                 duration, audioSegments)
              /\ lastEvent' = IF lastEvent.phase \in {2, 3}
                               THEN Ev("mousemove", draggedSplitPoint, 3, "none")
                               ELSE Other
              /\ UNCHANGED <<hoveredSplitPoint, timers>>
         ELSE IF isDragging /\ draggedSplitPoint # 0
         THEN \* dragging a point that is gone: return
              UNCHANGED <<splitPoints, audioSegments, lastEvent,
                          hoveredSplitPoint, timers>>
         ELSE \* hovering: only the hover highlight, the tooltip and the
              \* cursor change
              /\ hoveredSplitPoint' =
                   LET i == FindNear(splitPoints, clampedX)
                   IN  IF i = 0 THEN 0 ELSE splitPoints[i].id
              /\ timers' = {}
              /\ UNCHANGED <<splitPoints, audioSegments, lastEvent>>
  /\ UNCHANGED <<variant, audioFile, duration, width, nextSplitId, isLoading,
                 audioBuffer, ffmpegLoaded, isDragging, draggedSplitPoint,
                 longPressTimer, longPressStarted, metaPending,
                 loads>>
  /\ UNCHANGED exportVars

onMouseMove(mx) ==
  /\ SurfaceShown
  /\ LET clampedX == Clamp(R(mx), width)
     IN  IF /\ isDragging
            /\ draggedSplitPoint # 0
            /\ FindIndexById(splitPoints, draggedSplitPoint) # 0
         THEN /\ splitPoints' = DragPoints(splitPoints, draggedSplitPoint,
                                           clampedX, width, duration)
              /\ audioSegments' = updateSegments(variant, splitPoints',
                                                 duration, audioSegments)
              /\ lastEvent' = IF lastEvent.phase \in {2, 3}
                               THEN Ev("mousemove", draggedSplitPoint, 3, "none")
                               ELSE Other
              /\ UNCHANGED hoveredSplitPoint
         ELSE IF isDragging /\ draggedSplitPoint # 0
         THEN \* dragging a point that is gone: return
              UNCHANGED <<splitPoints, audioSegments, lastEvent,
                          hoveredSplitPoint>>
         ELSE \* hovering: only the hover highlight, the tooltip and the
              \* cursor change
              /\ hoveredSplitPoint' =
                   LET i == FindNear(splitPoints, clampedX)
                   IN  IF i = 0 THEN 0 ELSE splitPoints[i].id
              /\ UNCHANGED <<splitPoints, audioSegments, lastEvent>>
  /\ UNCHANGED <<variant, audioFile, duration, width, nextSplitId, isLoading,
                 audioBuffer, ffmpegLoaded, isDragging, draggedSplitPoint,
                 longPressTimer, longPressStarted, timers, metaPending,
                 loads>>
  /\ UNCHANGED exportVars

onMouseUp(mx) ==
  /\ SurfaceShown
  /\ timers' = ClearTimeout(timers, longPressTimer)
  /\ longPressTimer' = 0
  /\ LET clampedX == Clamp(R(mx), width)
         i == FindNear(splitPoints, clampedX)
     IN  IF isDragging
         THEN /\ isDragging' = FALSE
              /\ draggedSplitPoint' = 0
              /\ lastEvent' = IF lastEvent.phase = 3
                               THEN Ev("mouseup", draggedSplitPoint, 5, "dragend")
                               ELSE Ev("mouseup", 0, 0, "dragend")
              /\ UNCHANGED <<splitPoints, audioSegments, nextSplitId,
                             longPressStarted>>
         ELSE /\ longPressStarted' = FALSE
              /\ UNCHANGED <<isDragging, draggedSplitPoint>>
              /\ IF longPressStarted
                 THEN /\ lastEvent' = Ev("mouseup", 0, 0, "suppressed")
                      /\ UNCHANGED <<splitPoints, audioSegments, nextSplitId>>
                 ELSE IF ~ClickGuard
                 THEN /\ lastEvent' = Ev("mouseup", 0, 0, "ignored")
                      /\ UNCHANGED <<splitPoints, audioSegments, nextSplitId>>
                 ELSE /\ i = 0 => nextSplitId <= MaxSplitId
                      /\ splitPoints' = ClickPoints(splitPoints, clampedX,
                                                    width, duration,
                                                    nextSplitId)
                      /\ nextSplitId' =
                           IF i = 0 THEN nextSplitId + 1 ELSE nextSplitId
                      /\ audioSegments' = updateSegments(variant, splitPoints',
                                                         duration,
                                                         audioSegments)
                      /\ lastEvent' =
                           Ev("mouseup",
                              IF /\ lastEvent.phase = 1 /\ i # 0
                                 /\ splitPoints[i].id = lastEvent.pt
                                 /\ splitPoints[i].x = clampedX
                              THEN clampedX[1] ELSE -1,
                              IF lastEvent.phase = 1 THEN 4 ELSE 0,
                              IF i = 0 THEN "added" ELSE "removed")
  /\ UNCHANGED <<variant, audioFile, duration, width, isLoading, audioBuffer,
                 ffmpegLoaded, metaPending, loads>>
  /\ UNCHANGED hoveredSplitPoint
  /\ UNCHANGED exportVars

\* A faulty leave handler that does not end the drag
\* (fault injection for the gesture abort).
onMouseLeave_KeepsDrag ==
  /\ SurfaceShown
  /\ timers' = ClearTimeout(timers, longPressTimer)
  /\ longPressTimer' = 0
  /\ UNCHANGED <<isDragging, draggedSplitPoint>>
  /\ longPressStarted' = FALSE
  /\ lastEvent' = IF isDragging THEN Ev("mouseleave", 0, 0, "dragging")
                   ELSE IF timers # {} THEN Ev("mouseleave", 0, 0, "armed")
                   ELSE Other
  /\ UNCHANGED <<variant, audioFile, duration, width, splitPoints,
                 audioSegments, nextSplitId, isLoading, audioBuffer,
                 ffmpegLoaded, metaPending, loads>>
  /\ hoveredSplitPoint' = 0
  /\ UNCHANGED exportVars

onMouseLeave ==
  /\ SurfaceShown
  /\ timers' = ClearTimeout(timers, longPressTimer)
  /\ longPressTimer' = 0
  /\ isDragging' = FALSE
  /\ draggedSplitPoint' = IF isDragging THEN 0 ELSE draggedSplitPoint
  /\ longPressStarted' = FALSE
  /\ lastEvent' = IF isDragging THEN Ev("mouseleave", 0, 0, "dragging")
                   ELSE IF timers # {} THEN Ev("mouseleave", 0, 0, "armed")
                   ELSE Other
  /\ UNCHANGED <<variant, audioFile, duration, width, splitPoints,
                 audioSegments, nextSplitId, isLoading, audioBuffer,
                 ffmpegLoaded, metaPending, loads>>
  /\ hoveredSplitPoint' = 0
  /\ UNCHANGED exportVars

(***************************************************************************)
(* File selection, loading, metadata, resize, clear.                       *)
(***************************************************************************)
RemoveAt(q, k) == SubSeq(q, 1, k - 1) \o SubSeq(q, k + 1, Len(q))

\* handleFileSelect, up to its first suspension that lets events in: the
\* awaited nextTick is a microtask, and (WA) loadAudioData runs on to its
\* await of file.arrayBuffer().
handleFileSelect(f) ==
  /\ f \in Files
  /\ variant = "FF" => ~isLoading      \* the input is in the v-else branch
  /\ variant = "WA" => Len(loads) < MaxLoads
  /\ audioFile' = f
  /\ splitPoints' = <<>>
  /\ audioSegments' = <<>>
  /\ metaPending' = f                  \* audioElement.value.load()
  /\ isLoading' = IF variant = "WA" THEN TRUE ELSE isLoading
  /\ loads' = IF variant = "WA" THEN Append(loads, f) ELSE loads
  /\ lastEvent' = Ev("fileselect", 0, 0, "none")
  /\ UNCHANGED <<variant, duration, width, nextSplitId, audioBuffer,
                 ffmpegLoaded, isDragging, draggedSplitPoint, longPressTimer,
                 longPressStarted, timers>>
  /\ UNCHANGED hoveredSplitPoint
  /\ UNCHANGED exportVars

\* loadAudioData resumed after arrayBuffer() and decodeAudioData():
\* ok = the decode succeeded; catch and finally otherwise.
loadAudioData(k, ok) ==
  /\ variant = "WA"
  /\ k \in 1..Len(loads)
  /\ audioBuffer' = IF ok THEN loads[k] ELSE audioBuffer
  /\ isLoading' = FALSE
  /\ loads' = RemoveAt(loads, k)
  /\ lastEvent' = IF ok THEN Other ELSE Ev("decode", loads[k], 0, "failed")
  /\ UNCHANGED <<variant, audioFile, duration, width, splitPoints,
                 audioSegments, nextSplitId, ffmpegLoaded, isDragging,
                 draggedSplitPoint, longPressTimer, longPressStarted, timers,
                 metaPending>>
  /\ UNCHANGED hoveredSplitPoint
  /\ UNCHANGED exportVars

onLoadedMetadata ==
  /\ metaPending # 0
  /\ duration' = FileDuration(metaPending)
  /\ metaPending' = 0
  /\ splitPoints' = IF variant = "WA" /\ Len(splitPoints) > 0
                    THEN RecomputeX(splitPoints, width, duration')
                    ELSE splitPoints
  /\ audioSegments' = updateSegments(variant, splitPoints', duration',
                                     audioSegments)
  /\ lastEvent' = Other
  /\ UNCHANGED <<variant, audioFile, width, nextSplitId, isLoading,
                 audioBuffer, ffmpegLoaded, isDragging, draggedSplitPoint,
                 longPressTimer, longPressStarted, timers, loads>>
  /\ UNCHANGED hoveredSplitPoint
  /\ UNCHANGED exportVars

\* The window is resized: WA runs handleResize, FF has no handler and reads
\* timelineRef.clientWidth anew in every conversion.
handleResize(w) ==
  /\ w \in Widths
  /\ w # width
  /\ width' = w
  /\ splitPoints' = IF variant = "WA" /\ audioFile # 0 /\ RLt(R(0), duration)
                    THEN RecomputeX(splitPoints, w, duration)
                    ELSE splitPoints
  /\ lastEvent' = Other
  /\ UNCHANGED <<variant, audioFile, duration, audioSegments, nextSplitId,
                 isLoading, audioBuffer, ffmpegLoaded, isDragging,
                 draggedSplitPoint, longPressTimer, longPressStarted, timers,
                 metaPending, loads>>
  /\ UNCHANGED hoveredSplitPoint
  /\ UNCHANGED exportVars

\* A faulty clear that also restarts the identifier counter
\* (fault injection for the identifier rule).
clearSplitPoints_ResetIds ==
  /\ audioFile # 0
  /\ variant = "FF" => ~isLoading
  /\ splitPoints' = <<>>
  /\ nextSplitId' = 1
  /\ IF variant = "WA"
     THEN /\ timers' = {t \in timers : t.h # longPressTimer}
          /\ longPressTimer' = 0
          /\ audioSegments' = <<>>
          /\ isDragging' = FALSE
          /\ draggedSplitPoint' = 0
          /\ longPressStarted' = FALSE
          /\ hoveredSplitPoint' = 0
     ELSE /\ audioSegments' = updateSegmentsFF(<<>>, duration, <<>>)
          /\ UNCHANGED <<timers, longPressTimer, isDragging,
                         draggedSplitPoint, longPressStarted,
                         hoveredSplitPoint>>
  /\ lastEvent' = [op |-> "clear", pt |-> 0, phase |-> 0, out |-> "none"]
  /\ UNCHANGED <<variant, audioFile, duration, width, isLoading,
                 audioBuffer, ffmpegLoaded, metaPending, loads>>
  /\ UNCHANGED exportVars

clearSplitPoints ==
  /\ audioFile # 0                     \* the button is in the audio section
  /\ variant = "FF" => ~isLoading
  /\ splitPoints' = <<>>
  /\ IF variant = "WA"
     THEN /\ timers' = ClearTimeout(timers, longPressTimer)
          /\ longPressTimer' = 0
          /\ audioSegments' = <<>>
          /\ isDragging' = FALSE
          /\ draggedSplitPoint' = 0
          /\ longPressStarted' = FALSE
          /\ hoveredSplitPoint' = 0
     ELSE /\ audioSegments' = updateSegmentsFF(<<>>, duration, <<>>)
          /\ UNCHANGED <<timers, longPressTimer, isDragging,
                         draggedSplitPoint, longPressStarted,
                         hoveredSplitPoint>>
  /\ lastEvent' = Ev("clear", 0, 0, "none")
  /\ UNCHANGED <<variant, audioFile, duration, width, nextSplitId, isLoading,
                 audioBuffer, ffmpegLoaded, metaPending, loads>>
  /\ UNCHANGED exportVars

\* initFFmpeg resumed after the engine's load(): ok = it succeeded.
initFFmpeg(ok) ==
  /\ variant = "FF"
  /\ isLoading
  /\ ffmpegLoaded' = ok
  /\ processingMessage' = IF ok THEN "loaded" ELSE "loadFailed"
  /\ msgTimers' = IF ok THEN msgTimers + 1 ELSE msgTimers
  /\ isLoading' = FALSE
  /\ lastEvent' = Other
  /\ UNCHANGED <<isProcessing, batches, exportCount, downloads, fs,
                 failureAlerts>>
  /\ UNCHANGED <<hoveredSplitPoint, variant, audioFile, duration, width,
                 splitPoints,
                 audioSegments, nextSplitId, audioBuffer, isDragging,
                 draggedSplitPoint, longPressTimer, longPressStarted, timers,
                 metaPending, loads>>

(***************************************************************************)
(* Export.  A batch in flight is a record: id (its number), pc (the await  *)
(* it is suspended at), i (segments handled so far), list (WA: the array   *)
(* the for-of loop iterates), file (FF: the file whose bytes were read),   *)
(* seg (FF: the segment of the current iteration).                         *)
(***************************************************************************)
NoSeg == Seg(R(0), R(0))

\* A faulty trim command that passes the segment's end as the duration
\* (fault injection for the engine protocol).
TrimCommand_EndAsDuration(seg) ==
  [ss |-> seg.start, t |-> seg.end, c |-> "copy"]

\* exec(['-i', inputFileName, '-ss', start, '-t', end - start, '-c', 'copy',
\* name]): the arguments of the trim command for seg
TrimCommand(seg) ==
  [ss |-> seg.start, t |-> RSub(seg.end, seg.start), c |-> "copy"]

\* No trim command has been issued yet.
NoCmd == [ss |-> R(0), t |-> R(0), c |-> "none"]

Batch(id, pc, i, list, file, seg) ==
  [id |-> id, pc |-> pc, i |-> i, list |-> list, file |-> file, seg |-> seg,
   cmd |-> NoCmd]

\* a.click() on a link to the blob cut for seg from source src
Download(b, seg, src) == [b |-> b, seg |-> seg, src |-> src]

InputFile == [kind |-> "in", n |-> 0]
OutputFile(n) == [kind |-> "out", n |-> n]

\* WA generateSegments, from the click on the button to its first wait: the
\* first downloadSegment runs synchronously; ok = it does not throw.
generateSegments(ok) ==
  /\ variant = "WA"
  /\ audioFile # 0 /\ Len(audioSegments) > 0   \* the section is rendered
  /\ ~isLoading                                 \* :disabled="isLoading"
  /\ IF audioBuffer = 0
     THEN \* alert, return
          /\ lastEvent' = Ev("export", 0, 0, "refused")
          /\ UNCHANGED <<isLoading, batches, exportCount, downloads,
                         failureAlerts>>
     ELSE /\ exportCount < MaxExports
          /\ exportCount' = exportCount + 1
          /\ IF ok
             THEN /\ isLoading' = TRUE
                  /\ downloads' = Append(IF batches = <<>> THEN <<>>
                                         ELSE downloads,
                                         Download(exportCount', audioSegments[1],
                                                  audioBuffer))
                  /\ batches' = Append(batches,
                                       Batch(exportCount', "delay", 1,
                                             audioSegments, audioBuffer, NoSeg))
                  /\ lastEvent' = Other
                  /\ UNCHANGED failureAlerts
             ELSE \* catch: alert, finally
                  /\ isLoading' = FALSE
                  /\ failureAlerts' = failureAlerts + 1
                  /\ lastEvent' = Ev("export", exportCount', 0, "failed")
                  /\ UNCHANGED <<batches, downloads>>
  /\ UNCHANGED <<hoveredSplitPoint, variant, audioFile, duration, width,
                 splitPoints,
                 audioSegments, nextSplitId, audioBuffer, ffmpegLoaded,
                 isDragging, draggedSplitPoint, longPressTimer,
                 longPressStarted, timers, metaPending, loads, isProcessing,
                 processingMessage, msgTimers, fs>>

\* WA generateSegments resumed after the 500 ms wait of batch k: the next
\* downloadSegment (ok = it does not throw), or the end of the loop.
ExportDelayDone(k, ok) ==
  /\ variant = "WA"
  /\ k \in 1..Len(batches)
  /\ batches[k].pc = "delay"
  /\ LET b == batches[k]
     IN  IF b.i < Len(b.list)
         THEN IF ok
              THEN /\ downloads' = Append(downloads,
                                          Download(b.id, b.list[b.i + 1],
                                                   audioBuffer))
                   /\ batches' = [batches EXCEPT ![k].i = b.i + 1]
                   /\ lastEvent' = Other
                   /\ UNCHANGED <<isLoading, failureAlerts>>
              ELSE /\ isLoading' = FALSE
                   /\ failureAlerts' = failureAlerts + 1
                   /\ batches' = RemoveAt(batches, k)
                   /\ lastEvent' = Ev("export", b.id, 0, "failed")
                   /\ UNCHANGED downloads
         ELSE \* alert of success, finally
              /\ isLoading' = FALSE
              /\ batches' = RemoveAt(batches, k)
              /\ lastEvent' = Ev("export", b.id, 0, "completed")
              /\ UNCHANGED <<downloads, failureAlerts>>
  /\ UNCHANGED <<hoveredSplitPoint, variant, audioFile, duration, width,
                 splitPoints,
                 audioSegments, nextSplitId, audioBuffer, ffmpegLoaded,
                 isDragging, draggedSplitPoint, longPressTimer,
                 longPressStarted, timers, metaPending, loads, isProcessing,
                 processingMessage, msgTimers, exportCount, fs>>

\* Everything an FFmpeg export step leaves alone.
componentVars == <<hoveredSplitPoint, variant, audioFile, duration, width,
                   splitPoints,
                   audioSegments, nextSplitId, isLoading, audioBuffer,
                   ffmpegLoaded, isDragging, draggedSplitPoint, longPressTimer,
                   longPressStarted, timers, metaPending, loads>>

\* generateSegmentsWithFFmpeg with a button that is disabled only while a
\* batch runs.
generateSegmentsWithFFmpeg_NoLoadedGuard ==
  /\ variant = "FF"
  /\ ~isLoading                                 \* v-else of the loading pane
  /\ audioFile # 0 /\ Len(audioSegments) > 0   \* the section is rendered
  /\ ~isProcessing
  /\ exportCount < MaxExports
  /\ exportCount' = exportCount + 1
  /\ isProcessing' = TRUE
  /\ batches' = Append(batches, Batch(exportCount', "arrayBuffer", 0,
                                      audioSegments, audioFile, NoSeg))
  /\ downloads' = <<>>
  /\ lastEvent' = Other
  /\ UNCHANGED componentVars
  /\ UNCHANGED <<processingMessage, msgTimers, fs, failureAlerts>>

\* FF generateSegmentsWithFFmpeg, from the click on the button to the await
\* of audioFile.value.arrayBuffer().  The batch record keeps the list as
\* it is at the click (history: the loop reads audioSegments.value).
generateSegmentsWithFFmpeg ==
  /\ variant = "FF"
  /\ ~isLoading                                 \* v-else of the loading pane
  /\ audioFile # 0 /\ Len(audioSegments) > 0   \* the section is rendered
  /\ ~isProcessing /\ ffmpegLoaded   \* :disabled="isProcessing || !ffmpegLoaded"
  /\ exportCount < MaxExports
  /\ exportCount' = exportCount + 1
  /\ isProcessing' = TRUE
  /\ batches' = Append(batches, Batch(exportCount', "arrayBuffer", 0,
                                      audioSegments, audioFile, NoSeg))
  /\ downloads' = <<>>
  /\ lastEvent' = Other
  /\ UNCHANGED componentVars
  /\ UNCHANGED <<processingMessage, msgTimers, fs, failureAlerts>>

\* A faulty failure path without the finally block: the busy flag stays set
\* (fault injection for the end of a batch).
FailFF_NoFinally(k) ==
  /\ processingMessage' = "failed"
  /\ batches' = RemoveAt(batches, k)
  /\ lastEvent' = Ev("export", batches[k].id, 0, "failed")
  /\ UNCHANGED <<isProcessing, msgTimers, exportCount, downloads, fs,
                 failureAlerts>>

\* catch and finally of generateSegmentsWithFFmpeg for batch k
FailFF(k) ==
  /\ processingMessage' = "failed"
  /\ isProcessing' = FALSE
  /\ batches' = RemoveAt(batches, k)
  /\ lastEvent' = Ev("export", batches[k].id, 0, "failed")
  /\ UNCHANGED <<msgTimers, exportCount, downloads, fs, failureAlerts>>

\* The for loop's test and the start of an iteration of batch b (with b.i
\* segments handled), reading audioSegments.value as it is now: the trim
\* command is issued, or the loop ends and the input file is deleted.
LoopHeadFF(k, b) ==
  IF b.i < Len(audioSegments)
  THEN /\ batches' = [batches EXCEPT ![k] =
                        [b EXCEPT !.pc = "exec",
                                  !.seg = audioSegments[b.i + 1],
                                  !.cmd = TrimCommand(audioSegments[b.i + 1])]]
       /\ processingMessage' = "processing"
  ELSE /\ batches' = [batches EXCEPT ![k] = [b EXCEPT !.pc = "deleteInput"]]
       /\ processingMessage' = "done"

\* audioFile.value.arrayBuffer() returned: writeFile is called.
ArrayBufferDone(k, ok) ==
  /\ k \in 1..Len(batches)
  /\ batches[k].pc = "arrayBuffer"
  /\ IF ok
     THEN /\ batches' = [batches EXCEPT ![k].pc = "writeFile"]
          /\ lastEvent' = Other
          /\ UNCHANGED <<isProcessing, processingMessage, msgTimers,
                         exportCount, downloads, fs, failureAlerts>>
     ELSE FailFF(k)
  /\ UNCHANGED componentVars

\* writeFile(inputFileName, audioData) returned: the loop starts.
WriteFileDone(k, ok) ==
  /\ k \in 1..Len(batches)
  /\ batches[k].pc = "writeFile"
  /\ IF ok
     THEN /\ fs' = fs \cup {InputFile}
          /\ LoopHeadFF(k, batches[k])
          /\ lastEvent' = Other
          /\ UNCHANGED <<isProcessing, msgTimers, exportCount, downloads,
                         failureAlerts>>
     ELSE FailFF(k)
  /\ UNCHANGED componentVars

\* exec([-i input -ss start -t duration -c copy name]) returned: readFile.
ExecDone(k, ok) ==
  /\ k \in 1..Len(batches)
  /\ batches[k].pc = "exec"
  /\ IF ok
     THEN /\ fs' = fs \cup {OutputFile(batches[k].i + 1)}
          /\ batches' = [batches EXCEPT ![k].pc = "readFile"]
          /\ lastEvent' = Other
          /\ UNCHANGED <<isProcessing, processingMessage, msgTimers,
                         exportCount, downloads, failureAlerts>>
     ELSE FailFF(k)
  /\ UNCHANGED componentVars

\* readFile(segment.name) returned: the download is triggered and
\* deleteFile(segment.name) is called.
ReadFileDone(k, ok) ==
  /\ k \in 1..Len(batches)
  /\ batches[k].pc = "readFile"
  /\ IF ok
     THEN /\ downloads' = Append(downloads,
                                 Download(batches[k].id, batches[k].seg,
                                          batches[k].file))
          /\ batches' = [batches EXCEPT ![k].pc = "deleteFile"]
          /\ lastEvent' = Other
          /\ UNCHANGED <<isProcessing, processingMessage, msgTimers,
                         exportCount, fs, failureAlerts>>
     ELSE FailFF(k)
  /\ UNCHANGED componentVars

\* deleteFile(segment.name) returned or threw (ignored): next iteration.
DeleteFileDone(k, ok) ==
  /\ k \in 1..Len(batches)
  /\ batches[k].pc = "deleteFile"
  /\ fs' = IF ok THEN fs \ {OutputFile(batches[k].i + 1)} ELSE fs
  /\ LoopHeadFF(k, [batches[k] EXCEPT !.i = batches[k].i + 1])
  /\ lastEvent' = Other
  /\ UNCHANGED <<isProcessing, msgTimers, exportCount, downloads,
                 failureAlerts>>
  /\ UNCHANGED componentVars

\* deleteFile(inputFileName) returned or threw (ignored): the batch ends.
DeleteInputDone(k, ok) ==
  /\ k \in 1..Len(batches)
  /\ batches[k].pc = "deleteInput"
  /\ fs' = IF ok THEN fs \ {InputFile} ELSE fs
  /\ msgTimers' = msgTimers + 1
  /\ isProcessing' = FALSE
  /\ batches' = RemoveAt(batches, k)
  /\ lastEvent' = Ev("export", batches[k].id, 0, "completed")
  /\ UNCHANGED <<processingMessage, exportCount, downloads, failureAlerts>>
  /\ UNCHANGED componentVars

\* A timeout set by initFFmpeg or by a completed batch fires.
MessageClear ==
  /\ msgTimers > 0
  /\ msgTimers' = msgTimers - 1
  /\ processingMessage' = ""
  /\ UNCHANGED componentVars
  /\ UNCHANGED <<lastEvent, isProcessing, batches, exportCount, downloads,
                 fs, failureAlerts>>

\* The failure message is rendered only in the loading pane and in the
\* processing-status block.
MessageShown == (isLoading \/ isProcessing) /\ processingMessage # ""

(***************************************************************************)
(* The splitters under every interleaving of the events.                   *)
(* Environment of this specification: one pointer (no second press while a *)
(* long-press timeout is pending) that moves over the surface only while   *)
(* it drags a marker (SpecHover has the other moves), one file load at a   *)
(* time, and engine start-up and decoding succeed.                         *)
(***************************************************************************)
Next ==
  \/ \E mx \in MouseXs : timers = {} /\ onMouseDown(mx)
  \/ \E t \in timers : LongPressFire(t)
  \/ \E mx \in MouseXs : isDragging /\ onMouseMove(mx)
  \/ \E mx \in MouseXs : onMouseUp(mx)
  \/ onMouseLeave
  \/ \E f \in Files : loads = <<>> /\ handleFileSelect(f)
  \/ \E k \in 1..MaxLoads : loadAudioData(k, TRUE)
  \/ onLoadedMetadata
  \/ \E w \in Widths : handleResize(w)
  \/ clearSplitPoints
  \/ initFFmpeg(TRUE)

Spec == Init /\ [][Next]_vars

(***************************************************************************)
(* The gestures with the hover highlight, on a loaded track: the pointer   *)
(* also moves while no marker is dragged.                                  *)
(***************************************************************************)
InitHover ==
  /\ variant \in Variants
  /\ audioFile = 1
  /\ duration = FileDuration(1)
  /\ width \in Widths
  /\ splitPoints = <<>>
  /\ audioSegments = updateSegments(variant, <<>>, duration, <<>>)
  /\ nextSplitId = 1
  /\ isLoading = FALSE
  /\ audioBuffer = IF variant = "WA" THEN 1 ELSE 0
  /\ ffmpegLoaded = (variant = "FF")
  /\ isDragging = FALSE
  /\ draggedSplitPoint = 0
  /\ hoveredSplitPoint = 0
  /\ longPressTimer = 0
  /\ longPressStarted = FALSE
  /\ timers = {}
  /\ metaPending = 0
  /\ loads = <<>>
  /\ lastEvent = Other
  /\ InitExportVars

NextHover ==
  \/ \E mx \in MouseXs : timers = {} /\ onMouseDown(mx)
  \/ \E t \in timers : LongPressFire(t)
  \/ \E mx \in MouseXs : onMouseMove(mx)
  \/ \E mx \in MouseXs : onMouseUp(mx)
  \/ onMouseLeave
  \/ clearSplitPoints

SpecHover == InitHover /\ [][NextHover]_vars

(***************************************************************************)
(* The splitters with export: clicks, clear, file selection, loading (with *)
(* failures) and the export batches, without the press and drag gestures,  *)
(* on a surface of fixed width; the engine's deleteFile calls succeed.     *)
(***************************************************************************)
\* Releases at the left edge and inside the surface.
ExportMouseXs == {-5, 10}

\* The user-side events common to both components while exporting.
NextExportUser ==
  \/ \E mx \in ExportMouseXs : onMouseUp(mx)
  \/ \E f \in Files : loads = <<>> /\ handleFileSelect(f)
  \/ onLoadedMetadata
  \/ clearSplitPoints

InitExportWA == Init /\ width = 40 /\ variant = "WA"

NextExportWA ==
  \/ NextExportUser
  \/ \E k \in 1..MaxLoads, ok \in BOOLEAN : loadAudioData(k, ok)
  \/ \E ok \in BOOLEAN : generateSegments(ok)
  \/ \E k \in 1..MaxExports, ok \in BOOLEAN : ExportDelayDone(k, ok)

SpecExportWA == InitExportWA /\ [][NextExportWA]_vars

InitExportFF == Init /\ width = 40 /\ variant = "FF"

NextExportFF ==
  \/ NextExportUser
  \/ \E ok \in BOOLEAN : initFFmpeg(ok)
  \/ MessageClear
  \/ generateSegmentsWithFFmpeg
  \/ \E k \in 1..MaxExports, ok \in BOOLEAN : ArrayBufferDone(k, ok)
  \/ \E k \in 1..MaxExports, ok \in BOOLEAN : WriteFileDone(k, ok)
  \/ \E k \in 1..MaxExports, ok \in BOOLEAN : ExecDone(k, ok)
  \/ \E k \in 1..MaxExports, ok \in BOOLEAN : ReadFileDone(k, ok)
  \/ \E k \in 1..MaxExports : DeleteFileDone(k, TRUE)
  \/ \E k \in 1..MaxExports : DeleteInputDone(k, TRUE)

SpecExportFF == InitExportFF /\ [][NextExportFF]_vars


(***************************************************************************)
(* The segment deriver on its own: updateSegments applied once to a sorted *)
(* set of distinct split times strictly inside (0, duration).              *)
(***************************************************************************)
DeriverDuration == R(10)
DeriverTimes ==
  {<<1, 20>>, <<1, 10>>, R(3), <<61, 20>>, R(7), <<99, 10>>, <<199, 20>>}

\* Strictly increasing sequences of at most MaxDeriverPoints times.
DeriverInputs ==
  UNION {{ts \in [1..n -> DeriverTimes] :
            \A i \in 1..(n - 1) : RLt(ts[i], ts[i + 1])} :
         n \in 0..MaxDeriverPoints}

InitDeriver ==
  /\ variant \in Variants
  /\ audioFile = 1
  /\ duration = DeriverDuration
  /\ width \in Widths
  /\ \E ts \in DeriverInputs :
       splitPoints = [i \in 1..Len(ts) |->
                        Point(i, ts[i],
                              getXFromTime(ts[i], width, DeriverDuration))]
  /\ audioSegments = <<>>
  /\ nextSplitId = Len(splitPoints) + 1
  /\ isLoading = FALSE
  /\ audioBuffer = IF variant = "WA" THEN 1 ELSE 0
  /\ ffmpegLoaded = (variant = "FF")
  /\ isDragging = FALSE
  /\ draggedSplitPoint = 0
  /\ longPressTimer = 0
  /\ longPressStarted = FALSE
  /\ timers = {}
  /\ metaPending = 0
  /\ loads = <<>>
  /\ hoveredSplitPoint = 0
  /\ lastEvent = Other
  /\ InitExportVars

\* One call of updateSegments().
Derive ==
  /\ lastEvent.op # "derive"
  /\ audioSegments' = updateSegments(variant, splitPoints, duration,
                                     audioSegments)
  /\ lastEvent' = Ev("derive", 0, 0, "none")
  /\ UNCHANGED <<variant, audioFile, duration, width, splitPoints,
                 nextSplitId, isLoading, audioBuffer, ffmpegLoaded, isDragging,
                 draggedSplitPoint, longPressTimer, longPressStarted, timers,
                 metaPending, loads>>
  /\ UNCHANGED hoveredSplitPoint
  /\ UNCHANGED exportVars

NextDeriver == Derive

SpecDeriver == InitDeriver /\ [][NextDeriver]_vars

(***************************************************************************)
(* Properties of the segment deriver.                                      *)
(***************************************************************************)
Derived == lastEvent.op = "derive"

SegLen(g) == RSub(g.end, g.start)

Times(pts) == [i \in 1..Len(pts) |-> pts[i].time]

Range(q) == {q[i] : i \in 1..Len(q)}

\* The candidates [0,s0], [s_i,s_i+1], [s_last,D] of split times ts.
Candidates(ts, d) ==
  IF Len(ts) = 0 THEN <<Seg(R(0), d)>>
  ELSE <<Seg(R(0), ts[1])>>
       \o [i \in 1..(Len(ts) - 1) |-> Seg(ts[i], ts[i + 1])]
       \o <<Seg(ts[Len(ts)], d)>>

\* a is b with some elements left out (the elements of b are distinct)
RECURSIVE IsSubseq(_, _)
IsSubseq(a, b) ==
  IF a = <<>> THEN TRUE
  ELSE IF b = <<>> THEN FALSE
  ELSE IF Head(a) = Head(b) THEN IsSubseq(Tail(a), Tail(b))
  ELSE IsSubseq(a, Tail(b))

\* C1: for a duration D > 0 and sorted distinct split times inside (0, D),
\* the derived list is in ascending start order, consecutive segments do not
\* overlap, every emitted segment is a candidate (in candidate order), the
\* candidates tile [0, D] without gap, and a candidate that is not emitted
\* is one the minimum-length test drops (length at most 0.1 s); splits 3 and
\* 7 on a 10 s track give [0,3], [3,7], [7,10].
C1_DeriverContract ==
  Derived =>
    LET out == audioSegments
        cand == Candidates(Times(splitPoints), duration)
    IN  /\ \A k \in 1..(Len(out) - 1) :
             /\ RLt(out[k].start, out[k + 1].start)
             /\ RLe(out[k].end, out[k + 1].start)
        /\ IsSubseq(out, cand)
        /\ cand[1].start = R(0)
        /\ cand[Len(cand)].end = duration
        /\ \A k \in 1..(Len(cand) - 1) : cand[k].end = cand[k + 1].start
        /\ \A k \in 1..Len(cand) :
             cand[k] \in Range(out) \/ RLe(SegLen(cand[k]), MinSegment)
        /\ Times(splitPoints) = <<R(3), R(7)>> =>
             out = <<Seg(R(0), R(3)), Seg(R(3), R(7)), Seg(R(7), R(10))>>

\* The deriver has run on three points, two of them 0.05 s apart.
C1_Witness ==
  /\ Derived
  /\ Times(splitPoints) = <<R(3), <<61, 20>>, R(7)>>
  /\ Len(audioSegments) >= 3

(***************************************************************************)
(* Properties of the split-point store and of the pointer gestures,        *)
(* checked under Spec.                                                     *)
(***************************************************************************)
PointAt(pts, id) == pts[FindIndexById(pts, id)]

\* C2: after any sequence of click-add, click-remove, drag, clear, resize
\* and file-select operations the split points are in ascending time order.
C2_SortedByTime ==
  \A i \in 1..(Len(splitPoints) - 1) :
    RLe(splitPoints[i].time, splitPoints[i + 1].time)

\* Point 2 has just been dragged from the right of point 1 to its left and
\* now comes first.
C2_Witness ==
  /\ lastEvent.phase = 3
  /\ lastEvent.pt = 2
  /\ Len(splitPoints) = 2
  /\ splitPoints[1].id = 2
  /\ splitPoints[1].x = R(0)
  /\ splitPoints[2].x = R(10)

\* C3: with a track loaded, a click (a release that reaches the click
\* handler) at a pixel with no point within the tolerance adds exactly one
\* point, and a click within the tolerance of a point removes exactly one.
C3_ToggleLaw ==
  [][\A mx \in MouseXs :
       (onMouseUp(mx) /\ ~isDragging /\ ~longPressStarted /\ ClickGuard) =>
         LET near == {i \in 1..Len(splitPoints) :
                        RLt(RAbs(RSub(splitPoints[i].x, Clamp(R(mx), width))),
                            R(Tolerance))}
         IN  IF near = {}
             THEN Len(splitPoints') = Len(splitPoints) + 1
             ELSE Len(splitPoints') = Len(splitPoints) - 1]_vars

\* A click has just removed one of two points.
C3_Witness ==
  /\ lastEvent.out = "removed"
  /\ Len(splitPoints) = 1

\* C4: a press on a marker (from the idle state) followed by a release on
\* that marker before the long-press timeout fires removes the marker, keeps
\* every other point's time and pixel, and leaves no timeout pending.
C4_TapDeletes ==
  [][\A mx \in MouseXs :
       (/\ lastEvent.phase = 1
        /\ onMouseUp(mx)
        /\ FindNear(splitPoints, Clamp(R(mx), width)) # 0
        /\ splitPoints[FindNear(splitPoints, Clamp(R(mx), width))].id
             = lastEvent.pt) =>
         /\ lastEvent.pt \in Ids(splitPoints)
         /\ lastEvent.pt \notin Ids(splitPoints')
         /\ Len(splitPoints') = Len(splitPoints) - 1
         /\ \A p \in Range(splitPoints) :
              p.id # lastEvent.pt => p \in Range(splitPoints')
         /\ timers' = {}
         /\ longPressTimer' = 0
         /\ ~isDragging']_vars

\* A tap on a marker has just removed it, and another point remains.
C4_Witness ==
  /\ lastEvent.phase = 4
  /\ lastEvent.out = "removed"
  /\ Len(splitPoints) = 1

\* C5: a press on a marker held until the timeout fires starts a drag of
\* that marker without changing the store; every move then puts that marker
\* at the move's clamped pixel and the corresponding time and leaves every
\* other point and the set of identifiers alone; the release changes
\* nothing in the store.
C5_DragRepositions ==
  [][/\ \A t \in timers :
          (lastEvent.phase = 1 /\ LongPressFire(t)) =>
            /\ splitPoints' = splitPoints
            /\ isDragging'
            /\ draggedSplitPoint' = lastEvent.pt
     /\ \A mx \in MouseXs :
          (lastEvent.phase \in {2, 3} /\ onMouseMove(mx)) =>
            /\ Ids(splitPoints') = Ids(splitPoints)
            /\ Len(splitPoints') = Len(splitPoints)
            /\ lastEvent.pt \in Ids(splitPoints)
            /\ PointAt(splitPoints', lastEvent.pt).x = Clamp(R(mx), width)
            /\ PointAt(splitPoints', lastEvent.pt).time
                 = getTimeFromX(Clamp(R(mx), width), width, duration)
            /\ \A p \in Range(splitPoints) :
                 p.id # lastEvent.pt => p \in Range(splitPoints')
     /\ \A mx \in MouseXs :
          (lastEvent.phase \in {2, 3} /\ onMouseUp(mx)) =>
            /\ splitPoints' = splitPoints
            /\ ~isDragging'
            /\ timers' = {}]_vars

\* A drag with at least one move has just been released, and the dragged
\* marker is in the store away from every pixel a click could have put it.
C5_Witness ==
  /\ lastEvent.phase = 5
  /\ lastEvent.pt \in Ids(splitPoints)
  /\ Len(splitPoints) = 2
  /\ splitPoints[1].x = splitPoints[2].x

\* C6 as stated: in every reachable state no two distinct split points are
\* less than 15 pixels apart.
C6_NoTwoWithinTolerance ==
  \A i, j \in 1..Len(splitPoints) :
    i # j => ~RLt(RAbs(RSub(splitPoints[i].x, splitPoints[j].x)), R(Tolerance))

\* C6 as amended: a click that adds a point never puts it less than 15
\* pixels from a point already in the store.
C6_ClickKeepsDistance ==
  [][\A mx \in MouseXs :
       (onMouseUp(mx) /\ Len(splitPoints') = Len(splitPoints) + 1) =>
         \A p \in Range(splitPoints) :
           ~RLt(RAbs(RSub(p.x, Clamp(R(mx), width))), R(Tolerance))]_vars

\* A click has just added a second point.
C6_Witness ==
  /\ lastEvent.out = "added"
  /\ Len(splitPoints) = 2

\* C7: identifiers are never reused: the counter never goes down (not on
\* clear, not on file select), a new point's identifier is the counter's
\* value, which is above every identifier issued before, and the points in
\* the store have pairwise distinct identifiers below the counter.
C7_IdsNeverReused ==
  [][/\ nextSplitId' >= nextSplitId
     /\ \A i \in Ids(splitPoints') \ Ids(splitPoints) :
          nextSplitId <= i /\ i < nextSplitId'
     /\ \A i \in Ids(splitPoints) : i < nextSplitId
     /\ \A i, j \in 1..Len(splitPoints') :
          i # j => splitPoints'[i].id # splitPoints'[j].id]_vars

\* The store has just been cleared after two identifiers were issued.
C7_Witness ==
  /\ lastEvent.op = "clear"
  /\ nextSplitId > 2

\* C8: in every reachable state every split point's time t satisfies
\* 0 < t < duration.
C8_TimeInsideTrack ==
  \A i \in 1..Len(splitPoints) :
    /\ RLt(R(0), splitPoints[i].time)
    /\ RLt(splitPoints[i].time, duration)

\* C9: in every reachable state every listed segment has start < end.
C9_SegmentsNonEmpty ==
  \A k \in 1..Len(audioSegments) :
    RLt(audioSegments[k].start, audioSegments[k].end)

\* C10: the deriver never emits a segment shorter than 0.1 s, and splits
\* 3.00 and 3.05 on a 10 s track give exactly [0,3.0] and [3.05,10.0].
C10_NoShortSegment ==
  Derived =>
    /\ \A k \in 1..Len(audioSegments) :
         RLe(MinSegment, SegLen(audioSegments[k]))
    /\ Times(splitPoints) = <<R(3), <<61, 20>>>> =>
         audioSegments = <<Seg(R(0), R(3)), Seg(<<61, 20>>, R(10))>>


\* C11: after every operation that changes the split-point set (click-add,
\* click-remove, drag, clear) or the duration, the stored segment list is the
\* deriver's output for the new duration and the new split points; when the
\* new split list is empty and the duration is > 0 it is exactly [0, duration].
C11_SegmentsInSync ==
  [][((splitPoints' # splitPoints \/ duration' # duration)
        /\ lastEvent'.op # "fileselect") =>
       /\ audioSegments' = updateSegments(variant, splitPoints', duration',
                                          <<>>)
       /\ (splitPoints' = <<>> /\ RLt(R(0), duration')) =>
            audioSegments' = <<Seg(R(0), duration')>>]_vars


\* The downloads triggered so far by batch id, in the order of the clicks.
DownloadsOf(id) == SelectSeq(downloads, LAMBDA x : x.b = id)

\* The batches whose current segment is being materialized by the engine.
InFlight == {k \in 1..Len(batches) : batches[k].pc \in {"exec", "readFile"}}

\* C12: an export batch materializes its segments strictly in ascending
\* order of start time and one at a time: the downloads of a batch have
\* strictly increasing start times, the engine works on segment k+1 only when
\* the downloads of segments 1..k have been triggered, and no two segments are
\* in flight at once.
C12_AscendingOneAtATime ==
  /\ \A i, j \in 1..Len(downloads) :
       (i < j /\ downloads[i].b = downloads[j].b) =>
         RLt(downloads[i].seg.start, downloads[j].seg.start)
  /\ \A k \in InFlight : Len(DownloadsOf(batches[k].id)) = batches[k].i
  /\ Cardinality(InFlight) <= 1

\* The step in which an export batch ends with a failure.
BatchFails ==
  /\ (batches' # batches \/ exportCount' # exportCount)
  /\ lastEvent'.op = "export" /\ lastEvent'.out = "failed"

\* The failure of a batch is shown to the user (WA: one alert; FF: the
\* failure text in a pane that is rendered).
ErrorSurfacedOnce ==
  IF variant = "WA"
  THEN failureAlerts' = failureAlerts + 1
  ELSE processingMessage' = "failed" /\ MessageShown'

\* C13: when materializing a segment fails, the batch ends: it takes no
\* further step (no later segment is materialized or downloaded), exactly one
\* error message is shown to the user, the downloads already triggered stay
\* as they are, and the busy flag (isLoading / isProcessing) is false.
C13_FailureAbortsBatch ==
  [][BatchFails =>
       /\ \A k \in 1..Len(batches') : batches'[k].id # lastEvent'.pt
       /\ downloads' = downloads
       /\ ErrorSurfacedOnce
       /\ IF variant = "WA" THEN ~isLoading' ELSE ~isProcessing']_vars

\* The duration in use is not that of a file other than the selected one.
DurationOfTrack == duration # R(0) => duration = FileDuration(audioFile)

\* The decoded buffer in use is not that of a file other than the selected one.
BufferOfTrack == audioBuffer # 0 => audioBuffer = audioFile

\* C14: a newly selected file replaces the track as a whole: a step that
\* creates a split point, a step that derives segments and a step that
\* downloads an exported segment never works with the duration or the decoded
\* buffer (the file bytes) of a file other than the selected one.
C14_ReplacedWholesale ==
  [][/\ Len(splitPoints') > Len(splitPoints) =>
          DurationOfTrack /\ BufferOfTrack
     /\ (audioSegments' # audioSegments /\ audioSegments' # <<>>) =>
          DurationOfTrack'
     /\ (downloads' # downloads /\ downloads' # <<>>) =>
          downloads'[Len(downloads')].src = audioFile]_vars

\* The step in which loadAudioData ends in its catch block.
DecodeFails ==
  /\ loads' # loads
  /\ lastEvent'.op = "decode" /\ lastEvent'.out = "failed"

\* C15: in the Web Audio splitter a failed decode is shown to the user once
\* and leaves no decoded buffer behind (not the previous file's either), so
\* that no click can add a split point and no export can start from one.
C15_DecodeFailureClean ==
  [][DecodeFails =>
       /\ failureAlerts' = failureAlerts + 1
       /\ audioBuffer' = 0
       /\ ~ClickGuard']_vars

\* initFFmpeg has ended in its catch block.
EngineLoadFailed == variant = "FF" /\ ~isLoading /\ ~ffmpegLoaded

\* C16: in the FFmpeg splitter, once loading the engine has failed,
\* ffmpegLoaded stays false and no export batch starts: no batch is running,
\* nothing is written to the engine's file system and nothing is downloaded,
\* whatever files are selected and split points placed.
C16_ExportStaysDisabled ==
  [][EngineLoadFailed =>
       /\ EngineLoadFailed'
       /\ ~isProcessing' /\ batches' = <<>> /\ exportCount' = 0
       /\ fs' = {} /\ downloads' = <<>>]_vars

C16_Witness ==
  /\ EngineLoadFailed
  /\ audioFile # 0 /\ duration = FileDuration(audioFile)
  /\ Len(splitPoints) >= 1 /\ Len(audioSegments) >= 2

(***************************************************************************)
(* The WAV encoder on its own: audioBufferToWav applied to small buffers.  *)
(* A buffer is [length, numberOfChannels, sampleRate, data], data[c][i]    *)
(* being getChannelData(c - 1)[i - 1]; the blob is its sequence of bytes.  *)
(* lastEvent records the call: pt is the argument and out the result.      *)
(***************************************************************************)
\* The largest number of sample frames of an encoded buffer.
MaxFrames == 2

WavChannels == {1, 2}
WavRates == {8000, 44100}
\* Float samples inside, on and outside [-1, 1].
WavSamples == {<<-3, 2>>, R(-1), <<-1, 2>>, <<1, 3>>, R(1), R(2)}

\* An AudioBuffer of n frames, c channels and rate r with channel data d.
WavBuffer(n, c, r, d) ==
  [length |-> n, numberOfChannels |-> c, sampleRate |-> r, data |-> d]

\* writeString: the char codes of 'RIFF', 'WAVE', 'fmt ' and 'data'
ChunkRIFF == <<82, 73, 70, 70>>
ChunkWAVE == <<87, 65, 86, 69>>
ChunkFmt == <<102, 109, 116, 32>>
ChunkData == <<100, 97, 116, 97>>

RECURSIVE Pow256(_)
Pow256(k) == IF k = 0 THEN 1 ELSE 256 * Pow256(k - 1)

\* The bytes written most significant first (fault injection for the
\* byte order of the header fields).
BigEndian(v, n) ==
  [k \in 1..n |-> (v \div Pow256(n - k)) % 256]

\* view.setUint16 / setUint32 / setInt16 (offset, v, true): the n low bytes
\* of v (two's complement), least significant first
LittleEndian(v, n) ==
  [k \in 1..n |-> (v \div Pow256(k - 1)) % 256]

\* A conversion to an integer that rounds down (fault injection for the
\* rounding of negative samples).
ToInteger_Floor(q) ==
  IF q[1] >= 0 THEN q[1] \div q[2] ELSE -((-q[1] + q[2] - 1) \div q[2])

\* The integer conversion of DataView.setInt16: the fraction is dropped
ToInteger(q) ==
  IF q[1] >= 0 THEN q[1] \div q[2] ELSE -((-q[1]) \div q[2])

\* Math.max(-1, Math.min(1, sample)) * 0x7FFF, as setInt16 stores it
SampleValue(x) == ToInteger(RMul(RMax(R(-1), RMin(R(1), x)), R(32767)))

audioBufferToWav(buffer) ==
  LET length == buffer.length
      numberOfChannels == buffer.numberOfChannels
      sampleRate == buffer.sampleRate
      bitsPerSample == 16
      bytesPerSample == bitsPerSample \div 8
      blockAlign == numberOfChannels * bytesPerSample
      byteRate == sampleRate * blockAlign
      dataSize == length * blockAlign
      bufferSize == 44 + dataSize
      header ==
        ChunkRIFF \o LittleEndian(bufferSize - 8, 4) \o ChunkWAVE \o
        ChunkFmt \o LittleEndian(16, 4) \o LittleEndian(1, 2) \o
        LittleEndian(numberOfChannels, 2) \o LittleEndian(sampleRate, 4) \o
        LittleEndian(byteRate, 4) \o LittleEndian(blockAlign, 2) \o
        LittleEndian(bitsPerSample, 2) \o ChunkData \o
        LittleEndian(dataSize, 4)
      \* the loops over i and channel write value number i * channels +
      \* channel at offset 44 + 2 * that number
      samples ==
        [j \in 1..dataSize |->
           LET v == (j - 1) \div 2
               i == v \div numberOfChannels
               channel == v % numberOfChannels
           IN  LittleEndian(SampleValue(buffer.data[channel + 1][i + 1]),
                            2)[((j - 1) % 2) + 1]]
  IN  header \o samples

\* One call of audioBufferToWav().
EncodeWav ==
  /\ lastEvent.op # "audioBufferToWav"
  /\ \E n \in 1..MaxFrames, c \in WavChannels, r \in WavRates :
       \E d \in [1..c -> [1..n -> WavSamples]] :
         lastEvent' = Ev("audioBufferToWav", WavBuffer(n, c, r, d), 0,
                         audioBufferToWav(WavBuffer(n, c, r, d)))
  /\ UNCHANGED componentVars
  /\ UNCHANGED exportVars

InitWav == Init /\ variant = "WA" /\ width = 40

NextWav == EncodeWav

SpecWav == InitWav /\ [][NextWav]_vars

\* The encoder has been called.
Encoded == lastEvent.op = "audioBufferToWav"

\* The unsigned little-endian number in the n bytes from byte offset o on.
Unsigned(bytes, o, n) ==
  IF n = 2 THEN bytes[o + 1] + 256 * bytes[o + 2]
  ELSE bytes[o + 1] + 256 * bytes[o + 2] + 65536 * bytes[o + 3]
         + 16777216 * bytes[o + 4]

\* The signed little-endian 16-bit number at byte offset o.
Signed16(bytes, o) ==
  IF Unsigned(bytes, o, 2) >= 32768 THEN Unsigned(bytes, o, 2) - 65536
  ELSE Unsigned(bytes, o, 2)

\* C17: audioBufferToWav emits exactly 44 + N*C*2 bytes, and the header
\* declares, little-endian, container size = total - 8, format tag 1,
\* channel count C, sample rate R, byte rate R*C*2, block align C*2, bit
\* depth 16 and data size N*C*2 (C = 2, R = 44100, N = 2: 52 bytes with the
\* sample-rate field decoding to 44100).
C17_WavHeader ==
  Encoded =>
    LET b == lastEvent.pt
        bytes == lastEvent.out
        N == b.length
        C == b.numberOfChannels
        Rate == b.sampleRate
    IN  /\ Len(bytes) = 44 + N * C * 2
        /\ Unsigned(bytes, 4, 4) = Len(bytes) - 8
        /\ Unsigned(bytes, 20, 2) = 1
        /\ Unsigned(bytes, 22, 2) = C
        /\ Unsigned(bytes, 24, 4) = Rate
        /\ Unsigned(bytes, 28, 4) = Rate * C * 2
        /\ Unsigned(bytes, 32, 2) = C * 2
        /\ Unsigned(bytes, 34, 2) = 16
        /\ Unsigned(bytes, 40, 4) = N * C * 2
        /\ (C = 2 /\ Rate = 44100 /\ N = 2) =>
             Len(bytes) = 52 /\ Unsigned(bytes, 24, 4) = 44100

C17_Witness ==
  /\ Encoded
  /\ lastEvent.pt.numberOfChannels = 2
  /\ lastEvent.pt.sampleRate = 44100
  /\ lastEvent.pt.length = 2
  /\ lastEvent.pt.data = <<<<R(1), R(-1)>>, <<R(1), R(-1)>>>>
  /\ Len(lastEvent.out) = 52

\* The sample of channel c (from 0) at frame i (from 0) as the encoded bytes
\* of the last call hold it.
StoredSample(i, c) ==
  Signed16(lastEvent.out, 44 + (i * lastEvent.pt.numberOfChannels + c) * 2)

\* The float sample clamped to [-1, 1] and scaled by 32767.
Scaled(i, c) ==
  RMul(RMax(R(-1), RMin(R(1), lastEvent.pt.data[c + 1][i + 1])), R(32767))

\* The frames and channels of the last encoded buffer.
Frames == 0..(lastEvent.pt.length - 1)
Channels == 0..(lastEvent.pt.numberOfChannels - 1)

\* C18: the 16-bit little-endian sample of channel c at frame i, at byte
\* offset 44 + (i*C + c)*2, equals the input sample clamped to [-1, 1] and
\* scaled by 32767; inputs of 1.0 and above encode as 32767 and inputs of
\* -1.0 and below as -32767.
C18_SampleIsScaledInput ==
  Encoded =>
    \A i \in Frames, c \in Channels :
      /\ R(StoredSample(i, c)) = Scaled(i, c)
      /\ RLe(R(1), lastEvent.pt.data[c + 1][i + 1]) =>
           StoredSample(i, c) = 32767
      /\ RLe(lastEvent.pt.data[c + 1][i + 1], R(-1)) =>
           StoredSample(i, c) = -32767

\* C18 with the rounding: the sample at byte offset 44 + (i*C + c)*2 is the
\* clamped input scaled by 32767 and rounded toward zero, 32767 for inputs
\* of 1.0 and above and -32767 for inputs of -1.0 and below.
C18_SampleIsTruncatedScaledInput ==
  Encoded =>
    \A i \in Frames, c \in Channels :
      LET v == StoredSample(i, c)
          q == Scaled(i, c)
      IN  /\ RLe(RAbs(R(v)), RAbs(q)) /\ RLt(RAbs(q), R(Abs(v) + 1))
          /\ RLe(R(0), q) => v >= 0
          /\ RLe(q, R(0)) => v <= 0
          /\ RLe(R(1), lastEvent.pt.data[c + 1][i + 1]) => v = 32767
          /\ RLe(lastEvent.pt.data[c + 1][i + 1], R(-1)) => v = -32767

C18_Witness ==
  /\ Encoded
  /\ lastEvent.pt.numberOfChannels = 2 /\ lastEvent.pt.length = 2
  /\ lastEvent.pt.data = <<<<R(2), <<-1, 2>>>>, <<<<1, 3>>, <<-3, 2>>>>>>
  /\ StoredSample(0, 0) = 32767 /\ StoredSample(1, 0) = -16383
  /\ StoredSample(0, 1) = 10922 /\ StoredSample(1, 1) = -32767

(***************************************************************************)
(* The pixel/time conversions on their own, in binary floating point: the  *)
(* quotient and the product of getTimeFromX and getXFromTime are each      *)
(* rounded to the nearest number with MantissaBits significant bits (ties  *)
(* to even), as JavaScript rounds them to 53 bits.  A number is a rational *)
(* <<n, d>>; the results of a division by zero are <<1, 0>> (Infinity),    *)
(* <<-1, 0>> (-Infinity) and <<0, 0>> (NaN).                               *)
(***************************************************************************)
\* The number of significant bits of a floating-point number.
MantissaBits == 8

RECURSIVE Pow2(_)
Pow2(k) == IF k = 0 THEN 1 ELSE 2 * Pow2(k - 1)

\* q > 0 scaled by a power of two into [2^(MantissaBits-1), 2^MantissaBits),
\* with the exponent e of that power.
RECURSIVE ScaleToMantissa(_, _)
ScaleToMantissa(q, e) ==
  IF RLt(q, R(Pow2(MantissaBits - 1)))
  THEN ScaleToMantissa(RMul(q, R(2)), e - 1)
  ELSE IF RLe(R(Pow2(MantissaBits)), q)
       THEN ScaleToMantissa(RDiv(q, R(2)), e + 1)
       ELSE <<q, e>>

\* The integer nearest to q >= 0, ties to even.
RoundHalfEven(q) ==
  LET f == q[1] \div q[2]
      twice == 2 * (q[1] % q[2])
  IN  IF twice > q[2] \/ (twice = q[2] /\ f % 2 = 1) THEN f + 1 ELSE f

\* The floating-point number nearest to the rational q.
Float(q) ==
  IF q[1] = 0 THEN R(0)
  ELSE LET s == IF q[1] < 0 THEN -1 ELSE 1
           qe == ScaleToMantissa(RAbs(q), 0)
           m == RoundHalfEven(qe[1])
       IN  IF qe[2] >= 0 THEN R(s * m * Pow2(qe[2]))
           ELSE Norm(s * m, Pow2(-qe[2]))

NaN == <<0, 0>>
Infinity == <<1, 0>>
IsFinite(q) == q[2] # 0

\* a / b and a * b of finite numbers, b # 0 in the division
FDiv(a, b) == Float(RDiv(a, b))
FMul(a, b) == Float(RMul(a, b))

\* x / 0 * d for d > 0
DivByZeroTimes(x) ==
  IF x[1] = 0 THEN NaN ELSE IF x[1] > 0 THEN Infinity ELSE <<-1, 0>>

\* getTimeFromX of both components, the element being rendered with client
\* width w (WA: canvas.width)
getTimeFromXFloat(x, w, d) ==
  IF d = R(0) THEN R(0)
  ELSE IF w = 0 THEN DivByZeroTimes(x)
  ELSE FMul(FDiv(x, R(w)), d)

\* A pixel-from-time conversion that forgets the width (fault injection for
\* the round trip).
getXFromTime_NoWidth(t, w, d) ==
  IF d = R(0) THEN R(0) ELSE FDiv(t, d)

\* FF getXFromTime
getXFromTimeFloat(t, w, d) ==
  IF d = R(0) THEN R(0) ELSE FMul(FDiv(t, d), R(w))

\* Client widths of the surface, a collapsed one included.
ConvWidths == {0, 20, 40}
ConvDurations == {R(0), R(4), R(10)}
\* Pointer positions, clamped to [0, width] by the callers.
ConvXs == {R(0), R(3), R(10), R(20), R(33), R(40)}
\* Times that are floating-point numbers.
ConvTimes ==
  {R(0), <<1, 8>>, <<1, 2>>, R(1), <<3, 2>>, <<5, 2>>, R(3), <<53, 16>>,
   <<103, 32>>, <<7, 2>>, R(4), R(5), R(7), <<61, 8>>, R(9), R(10)}

InitConvert ==
  /\ variant \in Variants
  /\ audioFile = 1
  /\ duration \in ConvDurations
  /\ width \in ConvWidths
  /\ splitPoints = <<>>
  /\ audioSegments = <<>>
  /\ nextSplitId = 1
  /\ isLoading = FALSE
  /\ audioBuffer = IF variant = "WA" THEN 1 ELSE 0
  /\ ffmpegLoaded = (variant = "FF")
  /\ isDragging = FALSE
  /\ draggedSplitPoint = 0
  /\ longPressTimer = 0
  /\ longPressStarted = FALSE
  /\ timers = {}
  /\ metaPending = 0
  /\ loads = <<>>
  /\ hoveredSplitPoint = 0
  /\ lastEvent = Other
  /\ InitExportVars

\* One call of getTimeFromX(x); pt is the argument and out the result.
ConvertX ==
  /\ lastEvent = Other
  /\ \E x \in ConvXs :
       /\ RLe(x, R(width))
       /\ lastEvent' = Ev("getTimeFromX", x, 0,
                          getTimeFromXFloat(x, width, duration))
  /\ UNCHANGED componentVars
  /\ UNCHANGED exportVars

\* getTimeFromX(getXFromTime(t)) for a time of the track.
RoundTrip ==
  /\ lastEvent = Other
  /\ width > 0 /\ RLt(R(0), duration)
  /\ \E t \in ConvTimes :
       /\ RLe(t, duration)
       /\ lastEvent' =
            Ev("roundTrip", t, 0,
               getTimeFromXFloat(getXFromTimeFloat(t, width, duration),
                                 width, duration))
  /\ UNCHANGED componentVars
  /\ UNCHANGED exportVars

NextConvert == ConvertX \/ RoundTrip

SpecConvert == InitConvert /\ [][NextConvert]_vars

\* C19: the pixel-to-time conversion returns exactly 0 whenever the rendered
\* width is 0 or the duration is 0, and (x / width) * duration otherwise; its
\* result is always a finite number.
C19_TimeFromPixelTotal ==
  lastEvent.op = "getTimeFromX" =>
    /\ IsFinite(lastEvent.out)
    /\ lastEvent.out =
         IF width = 0 \/ duration = R(0) THEN R(0)
         ELSE FMul(FDiv(lastEvent.pt, R(width)), duration)

\* C20: for a width W > 0, a duration D > 0 and a time t with 0 <= t <= D,
\* converting t to a pixel and back returns t.
C20_RoundTripExact ==
  lastEvent.op = "roundTrip" => lastEvent.out = lastEvent.pt

\* A bound on the error the four roundings can add to t: each at most one
\* part in 2^MantissaBits.
RoundingTolerance(t) == RMul(t, Norm(4, Pow2(MantissaBits)))

\* C20 with the rounding: for W > 0, D > 0 and 0 <= t <= D, converting t to
\* a pixel and back returns a finite time that differs from t by no more
\* than the floating-point rounding of the two divisions and two products
\* (0 returns 0).
C20_RoundTripWithinTolerance ==
  lastEvent.op = "roundTrip" =>
    /\ IsFinite(lastEvent.out)
    /\ RLe(RAbs(RSub(lastEvent.out, lastEvent.pt)),
           RoundingTolerance(lastEvent.pt))

C20_Witness ==
  /\ lastEvent.op = "roundTrip"
  /\ width = 20 /\ duration = R(4)
  /\ lastEvent.pt = <<53, 16>>
  /\ lastEvent.out = <<211, 64>>

(***************************************************************************)
(* Properties of the stored pixel positions and of the gestures.           *)
(***************************************************************************)
\* C21: the pixel position of a split point is a view of its time: in every
\* state, for the current width and duration, every split point satisfies
\* x = (time / duration) * width (so the duration is not 0 while points
\* exist).
C21_PixelIsViewOfTime ==
  \A i \in 1..Len(splitPoints) :
    /\ duration # R(0)
    /\ splitPoints[i].x = getXFromTime(splitPoints[i].time, width, duration)

\* C22: double-clicking a split point deletes it: after two quick clicks
\* (press, release, press, release) at the pixel of a split point, the store
\* holds one point less than before the first press and no point within the
\* tolerance of that pixel.  The first click has removed the point (phase 4)
\* and the second press has happened (phase 6), so the second release must
\* leave the number of points as it is and no point near the pixel.
C22_DoubleClickDeletes ==
  [][\A mx \in MouseXs :
       (/\ lastEvent.phase = 6
        /\ onMouseUp(mx)
        /\ Clamp(R(mx), width) = R(lastEvent.pt)) =>
         /\ Len(splitPoints') = Len(splitPoints)
         /\ FindNear(splitPoints', Clamp(R(mx), width)) = 0]_vars

(***************************************************************************)
(* Properties of the export.                                               *)
(***************************************************************************)
\* The segments of the downloads q, in order.
SegsOf(q) == [i \in 1..Len(q) |-> q[i].seg]

\* The step triggers a download that is not the first of its batch.
LaterDownload ==
  /\ downloads' # downloads /\ downloads' # <<>>
  /\ Len(SelectSeq(downloads',
                   LAMBDA x : x.b = downloads'[Len(downloads')].b)) >= 2

\* C23: a batch triggers exactly one download per segment, and a download
\* that is not the first of its batch is triggered by the end of the fixed
\* 500 ms wait that followed the previous one: when a batch completes, its
\* downloads are its segments, one each, and every later download is a step
\* of a batch that was waiting.
C23_OneDownloadPerSegmentWithDelay ==
  [][/\ LaterDownload =>
          \E k \in 1..Len(batches) :
            /\ batches[k].id = downloads'[Len(downloads')].b
            /\ batches[k].pc = "delay"
     /\ (lastEvent'.op = "export" /\ lastEvent'.out = "completed"
           /\ batches' # batches) =>
          SegsOf(DownloadsOf(lastEvent'.pt)) =
            IF variant = "WA"
            THEN batches[CHOOSE k \in 1..Len(batches) :
                           batches[k].id = lastEvent'.pt].list
            ELSE audioSegments]_vars

\* C24: with a track loaded, a press followed by a release with no
\* long-press timeout firing in between is a click: the release runs the
\* add-or-remove of the click handler once at its pixel, whatever the
\* previous gesture was (no drag is under way when the button goes down).
C24_PressReleaseIsClick ==
  [][\A mx \in MouseXs :
       (/\ lastEvent.op = "mousedown" /\ ~isDragging
        /\ ClickGuard /\ onMouseUp(mx)) =>
         /\ splitPoints' = ClickPoints(splitPoints, Clamp(R(mx), width),
                                       width, duration, nextSplitId)
         /\ Len(splitPoints') # Len(splitPoints)]_vars

\* The gesture machine is armed (its one timeout is pending) or dragging.
ArmedOrDragging ==
  /\ isDragging \/ timers # {}
  /\ \A t \in timers : t.h = longPressTimer

\* C25: a pointer-leave while the machine is armed for long-press or
\* dragging cancels the pending timeout (none is left to fire), returns the
\* machine to idle (not dragging, no dragged point, long-press flag false)
\* and leaves the split points and the segments as they were.
C25_LeaveAborts ==
  [][(ArmedOrDragging /\ onMouseLeave) =>
       /\ timers' = {} /\ longPressTimer' = 0
       /\ ~isDragging' /\ draggedSplitPoint' = 0 /\ ~longPressStarted'
       /\ splitPoints' = splitPoints
       /\ audioSegments' = audioSegments]_vars

\* The pointer has just left during a drag that had moved a marker.
C25_Witness ==
  /\ lastEvent.op = "mouseleave" /\ lastEvent.out = "dragging"
  /\ Idle /\ draggedSplitPoint = 0 /\ ~longPressStarted
  /\ Len(splitPoints) = 2
  /\ splitPoints[1].x = splitPoints[2].x

\* C26: a pointer-move while no marker is dragged (idle or armed) changes
\* only the hover highlight: the split points, the segments, the id counter
\* and the gesture state (pending timeouts, timer handle, dragging flag,
\* dragged point, long-press flag) are unchanged.
C26_MoveOnlyHovers ==
  [][\A mx \in MouseXs :
       (~isDragging /\ onMouseMove(mx)) =>
         UNCHANGED <<splitPoints, audioSegments, nextSplitId, timers,
                     longPressTimer, isDragging, draggedSplitPoint,
                     longPressStarted>>]_vars

\* Armed on one marker while the pointer has moved over another one.
C26_Witness ==
  /\ ~isDragging /\ timers # {}
  /\ lastEvent.phase = 1
  /\ hoveredSplitPoint # 0
  /\ hoveredSplitPoint # lastEvent.pt
  /\ FindIndexById(splitPoints, hoveredSplitPoint) # 0

\* C27: a move that repositions the dragged marker changes only that
\* marker's time and pixel: every other point keeps its id, time and pixel,
\* the dragged marker keeps its id, the number of points is unchanged and
\* the new pixel lies between 0 and the rendered width.
C27_DragStepLocal ==
  [][\A mx \in MouseXs :
       (/\ isDragging
        /\ UNCHANGED <<draggedSplitPoint, timers, width, duration>>
        /\ FindIndexById(splitPoints, draggedSplitPoint) # 0
        /\ onMouseMove(mx)) =>
          /\ Len(splitPoints') = Len(splitPoints)
          /\ \A p \in Range(splitPoints) :
               p.id # draggedSplitPoint => p \in Range(splitPoints')
          /\ \A q \in Range(splitPoints') :
               q.id # draggedSplitPoint => q \in Range(splitPoints)
          /\ FindIndexById(splitPoints', draggedSplitPoint) # 0
          /\ RLe(R(0), PointAt(splitPoints', draggedSplitPoint).x)
          /\ RLe(PointAt(splitPoints', draggedSplitPoint).x, R(width))]_vars

\* A drag step has just put the dragged marker on the right edge, next to
\* another marker that is where its click put it.
C27_Witness ==
  /\ isDragging /\ lastEvent.phase = 3
  /\ Len(splitPoints) = 2
  /\ PointAt(splitPoints, draggedSplitPoint).x = R(width)
  /\ \E p \in Range(splitPoints) :
       p.id # draggedSplitPoint /\ p.x = R(10)

\* The distance in pixels between a point and the pointer.
PixelDistance(p, cx) == RAbs(RSub(p.x, cx))

\* C28: the hit-test at any pointer position returns a point nearest to the
\* pointer among those within the tolerance, and none exactly when no point
\* is within the tolerance.
C28_HitTestNearest ==
  \A mx \in MouseXs :
    LET cx == Clamp(R(mx), width)
        i == FindNear(splitPoints, cx)
        within == {j \in 1..Len(splitPoints) :
                     RLt(PixelDistance(splitPoints[j], cx), R(Tolerance))}
    IN  /\ i = 0 <=> within = {}
        /\ i # 0 =>
             \A j \in within :
               RLe(PixelDistance(splitPoints[i], cx),
                   PixelDistance(splitPoints[j], cx))

\* C29: in the WebAudio deriver only candidates shorter than 0.1 s are
\* dropped: every candidate of length 0.1 s or more (exactly 0.1 s
\* included; first, middle or last) is emitted.
C29_OnlyShortDropped ==
  (Derived /\ variant = "WA") =>
    \A c \in Range(Candidates(Times(splitPoints), duration)) :
      RLe(MinSegment, SegLen(c)) => c \in Range(audioSegments)

(***************************************************************************)
(* The sample arithmetic of the WebAudio export: downloadSegment cuts the  *)
(* samples of one segment out of the decoded buffer.  The batch is taken   *)
(* as one step here; the waits between its downloads are in SpecExportWA.  *)
(***************************************************************************)
\* Sample rates (small, so that a boundary falls between two samples) and
\* channel counts of the decoded buffer.
SliceRates == {1, 3}
SliceChannels == {1, 2}

\* Math.floor of a rational that is not negative
MathFloor(q) == q[1] \div q[2]

\* The decoded buffer of a track of d seconds: channel c holds the samples
\* 100 * (c - 1), 100 * (c - 1) + 1, ... so that every sample tells the
\* channel and the index it was read from.
DecodedBuffer(d, c, r) ==
  LET n == MathFloor(RMul(d, R(r)))
  IN  WavBuffer(n, c, r,
                [ch \in 1..c |-> [j \in 1..n |-> R(100 * (ch - 1) + j - 1)]])

\* sourceData[k] of a Float32Array, k counted from 0: NaN past the end
\* (an undefined element stored into a Float32Array)
SourceSample(buffer, ch, k) ==
  IF k < buffer.length THEN buffer.data[ch][k + 1] ELSE NaN

\* createBuffer throws for a length of 0: no buffer, nothing downloaded
NotSupportedError == WavBuffer(-1, 0, 0, <<>>)

\* A faulty cut that copies from the start of the source buffer
\* (fault injection for the sample arithmetic).
downloadSegment_FromZero(segment, buffer) ==
  LET rate == buffer.sampleRate
      startSample == MathFloor(RMul(segment.start, R(rate)))
      endSample == MathFloor(RMul(segment.end, R(rate)))
      length == endSample - startSample
  IN  IF length <= 0 THEN NotSupportedError
      ELSE WavBuffer(length, buffer.numberOfChannels, rate,
                     [ch \in 1..buffer.numberOfChannels |->
                        [i \in 1..length |->
                           SourceSample(buffer, ch, i - 1)]])

\* downloadSegment, steps 1 to 3: the segmentBuffer handed to
\* audioBufferToWav; createBuffer throws for a length of 0
downloadSegment(segment, buffer) ==
  LET rate == buffer.sampleRate
      startSample == MathFloor(RMul(segment.start, R(rate)))
      endSample == MathFloor(RMul(segment.end, R(rate)))
      length == endSample - startSample
  IN  IF length <= 0 THEN NotSupportedError
      ELSE WavBuffer(length, buffer.numberOfChannels, rate,
                     [ch \in 1..buffer.numberOfChannels |->
                        [i \in 1..length |->
                           SourceSample(buffer, ch, startSample + i - 1)]])

\* generateSegments on a decoded track: downloadSegment for every segment of
\* the list, in order; the history keeps the decoded buffer and the buffers
\* cut from it.
SliceBatch ==
  /\ variant = "WA" /\ audioBuffer # 0
  /\ lastEvent.op = "derive"
  /\ audioSegments # <<>>
  /\ \E c \in SliceChannels, r \in SliceRates :
       LET buffer == DecodedBuffer(duration, c, r)
       IN  lastEvent' = Ev("downloadSegment", buffer, 0,
                           [k \in 1..Len(audioSegments) |->
                              downloadSegment(audioSegments[k], buffer)])
  /\ UNCHANGED componentVars
  /\ UNCHANGED exportVars

InitSlice == InitDeriver /\ variant = "WA"

NextSlice == Derive \/ SliceBatch

SpecSlice == InitSlice /\ [][NextSlice]_vars

\* A batch has been cut.
Sliced == lastEvent.op = "downloadSegment"

\* C30: the buffer exported for a segment [start, end] has exactly
\* floor(end * rate) - floor(start * rate) samples in each channel of the
\* source, sample i of it is source sample floor(start * rate) + i, and for
\* two segments of the batch that share a boundary the first sample of the
\* later one is the source sample right after the last sample of the earlier.
C30_SliceIsSampleRange ==
  Sliced =>
    LET src == lastEvent.pt
        out == lastEvent.out
        rate == src.sampleRate
    IN  /\ \A k \in 1..Len(audioSegments) :
             LET a == MathFloor(RMul(audioSegments[k].start, R(rate)))
                 b == MathFloor(RMul(audioSegments[k].end, R(rate)))
             IN  /\ out[k] # NotSupportedError
                 /\ out[k].length = b - a
                 /\ out[k].numberOfChannels = src.numberOfChannels
                 /\ \A ch \in 1..src.numberOfChannels :
                      /\ Len(out[k].data[ch]) = b - a
                      /\ \A i \in 0..(b - a - 1) :
                           out[k].data[ch][i + 1] = src.data[ch][a + i + 1]
        /\ \A k \in 1..(Len(audioSegments) - 1) :
             audioSegments[k].end = audioSegments[k + 1].start =>
               \A ch \in 1..src.numberOfChannels :
                 out[k + 1].data[ch][1]
                   = RAdd(out[k].data[ch][out[k].length], R(1))

\* A batch was cut in which two segments share a boundary that falls
\* between two samples.
C30_Witness ==
  /\ Sliced
  /\ \E k \in 1..(Len(audioSegments) - 1) :
       /\ audioSegments[k].end = audioSegments[k + 1].start
       /\ RMul(audioSegments[k].end, R(lastEvent.pt.sampleRate))[2] # 1
       /\ lastEvent.out[k].length > 1
       /\ lastEvent.out[k + 1].length > 1

(***************************************************************************)
(* Properties of the export batches as a whole.                            *)
(***************************************************************************)
\* Batch b of the next state has just reached program point pc.
Reaches(pc) ==
  {k \in 1..Len(batches') :
     /\ batches'[k].pc = pc
     /\ \A j \in 1..Len(batches) :
          batches[j].id = batches'[k].id =>
            (batches[j].pc # pc \/ batches[j].i # batches'[k].i)}

\* C31: an FFmpeg batch follows the engine protocol in order: the input is
\* written once, from the writeFile call and before any trim command; each
\* trim command has start = segment.start, duration = segment.end -
\* segment.start and stream copy; an output is read only after its command
\* completed (it is in the filesystem), is downloaded in the step that read
\* it and deleted only after that; the input is deleted only after the loop
\* has ended, every segment of the list it reads having been processed.
C31_EngineProtocol ==
  [][/\ (InputFile \in fs' /\ fs' # fs /\ InputFile \notin fs) =>
          \E k \in 1..Len(batches) :
            batches[k].pc = "writeFile" /\ batches[k].i = 0
     /\ \A k \in Reaches("exec") :
          /\ InputFile \in fs'
          /\ batches'[k].i < Len(audioSegments)
          /\ batches'[k].cmd.ss = audioSegments[batches'[k].i + 1].start
          /\ batches'[k].cmd.t
               = RSub(audioSegments[batches'[k].i + 1].end,
                      audioSegments[batches'[k].i + 1].start)
          /\ batches'[k].cmd.c = "copy"
     /\ \A k \in Reaches("readFile") :
          /\ OutputFile(batches'[k].i + 1) \in fs'
          /\ \E j \in 1..Len(batches) :
               batches[j].id = batches'[k].id /\ batches[j].pc = "exec"
     /\ \A k \in Reaches("deleteFile") :
          /\ \E j \in 1..Len(batches) :
               batches[j].id = batches'[k].id /\ batches[j].pc = "readFile"
          /\ downloads' = Append(downloads,
                                 Download(batches'[k].id, batches'[k].seg,
                                          batches'[k].file))
     /\ \A n \in 1..(MaxSplitId + 1) :
          (OutputFile(n) \in fs /\ OutputFile(n) \notin fs') =>
            \E k \in 1..Len(batches) :
              batches[k].pc = "deleteFile" /\ batches[k].i + 1 = n
     /\ \A k \in Reaches("deleteInput") :
          batches'[k].i >= Len(audioSegments)
     /\ (InputFile \in fs /\ InputFile \notin fs') =>
          \E k \in 1..Len(batches) : batches[k].pc = "deleteInput"]_vars

\* The trim command of a batch's second segment is under way after the
\* first segment was read, downloaded and deleted.
C31_Witness ==
  \E k \in 1..Len(batches) :
    /\ batches[k].pc = "exec" /\ batches[k].i = 1
    /\ batches[k].cmd.ss # R(0)
    /\ batches[k].cmd.t # batches[k].seg.end
    /\ Len(DownloadsOf(batches[k].id)) = 1
    /\ fs = {InputFile}

(***************************************************************************)
(* The export batches under fairness, on a loaded track: every awaited     *)
(* call of a batch (the file read, the engine calls, the 500 ms wait)      *)
(* eventually returns or fails, deleteFile succeeds, and the user keeps    *)
(* clicking and clearing while batches run.                                *)
(***************************************************************************)
InitLive == InitHover /\ width = 40

\* A step of a batch in flight: the call it awaits returns (ok) or fails.
BatchStep ==
  \/ \E k \in 1..MaxExports, ok \in BOOLEAN : ExportDelayDone(k, ok)
  \/ \E k \in 1..MaxExports, ok \in BOOLEAN : ArrayBufferDone(k, ok)
  \/ \E k \in 1..MaxExports, ok \in BOOLEAN : WriteFileDone(k, ok)
  \/ \E k \in 1..MaxExports, ok \in BOOLEAN : ExecDone(k, ok)
  \/ \E k \in 1..MaxExports, ok \in BOOLEAN : ReadFileDone(k, ok)
  \/ \E k \in 1..MaxExports : DeleteFileDone(k, TRUE)
  \/ \E k \in 1..MaxExports : DeleteInputDone(k, TRUE)

NextLive ==
  \/ \E mx \in ExportMouseXs : onMouseUp(mx)
  \/ clearSplitPoints
  \/ MessageClear
  \/ \E ok \in BOOLEAN : generateSegments(ok)
  \/ generateSegmentsWithFFmpeg
  \/ BatchStep

SpecLive == InitLive /\ [][NextLive]_vars /\ WF_vars(BatchStep)

\* The busy flag of the mounted splitter.
Busy == IF variant = "WA" THEN isLoading ELSE isProcessing

BatchInFlight(id) == \E k \in 1..Len(batches) : batches[k].id = id

\* C32: a started export batch runs to completion or to its first failure:
\* every batch in flight eventually ends, and while batches are in flight
\* a state is eventually reached in which none is and the busy flag
\* (isLoading in the WebAudio splitter, isProcessing in the FFmpeg one) is
\* false.
C32_BatchEnds ==
  /\ \A id \in 1..MaxExports : BatchInFlight(id) ~> ~BatchInFlight(id)
  /\ (batches # <<>>) ~> (batches = <<>> /\ ~Busy)

\* A batch has ended by a failure after its first download, and the busy
\* flag is down.
C32_Witness ==
  /\ lastEvent.op = "export" /\ lastEvent.out = "failed"
  /\ batches = <<>> /\ ~Busy
  /\ DownloadsOf(lastEvent.pt) # <<>>

(***************************************************************************)
(* The gestures on a loaded track with a pointer that has several buttons: *)
(* a mousedown may follow a mousedown with no mouseup or mouseleave in     *)
(* between (the handlers do not look at event.button).                     *)
(***************************************************************************)
InitPress == InitHover

NextPress ==
  \/ \E mx \in MouseXs : onMouseDown(mx)
  \/ \E t \in timers : LongPressFire(t)
  \/ \E mx \in MouseXs : isDragging /\ onMouseMove(mx)
  \/ \E mx \in MouseXs : onMouseUp(mx)
  \/ onMouseLeave
  \/ clearSplitPoints

SpecPress == InitPress /\ [][NextPress]_vars

\* C33: at most one long-press timeout is pending, and a pending timeout
\* is the one whose handle longPressTimer holds (so that the clearTimeout
\* of a release or a leave cancels every pending timeout and no drag can
\* start after the release).
C33_OneTimerPending ==
  /\ Cardinality(timers) <= 1
  /\ \A t \in timers : t.h = longPressTimer

\* C34: whenever a drag is in progress the dragged point is a split point
\* of the store; clear and file selection during a press or a drag neither
\* leave nor later produce a drag of a removed point.
C34_DraggedPointInStore ==
  isDragging => draggedSplitPoint \in Ids(splitPoints)

\* The step in which batch id ends by completion.
Completes(id) ==
  /\ lastEvent'.op = "export" /\ lastEvent'.out = "completed"
  /\ lastEvent'.pt = id
  /\ BatchInFlight(id)
  /\ batches' # batches

\* C35: the segments an export batch materializes are exactly those of the
\* segment list as it was when the export was triggered, in that order,
\* whatever happens to the split points while the batch is in flight: every
\* download of a batch is the next segment of that list, and a batch that
\* completes has downloaded the whole list.
C35_ExportsSnapshot ==
  [][/\ \A k \in 1..Len(batches) :
          (/\ Len(downloads') = Len(downloads) + 1
           /\ downloads'[Len(downloads')].b = batches[k].id) =>
             LET n == Len(DownloadsOf(batches[k].id)) + 1
             IN  /\ n <= Len(batches[k].list)
                 /\ downloads'[Len(downloads')].seg = batches[k].list[n]
     /\ \A k \in 1..Len(batches) :
          Completes(batches[k].id) =>
            SegsOf(DownloadsOf(batches[k].id)) = batches[k].list]_vars

\* C36: while an export batch is in flight the export trigger of the
\* splitter is disabled (its busy flag is set), so that no second batch can
\* start before the first has ended, also when a file is selected and
\* finishes loading during the batch.
C36_TriggerDisabledInFlight ==
  batches # <<>> => Busy

\* C37: all segments of one WebAudio export batch are cut from the same
\* decoded buffer, the one that was loaded when the export was triggered,
\* whatever file is selected and decoded while the batch is in flight.
C37_OneBufferPerBatch ==
  variant = "WA" =>
    /\ \A i, j \in 1..Len(downloads) :
         downloads[i].b = downloads[j].b =>
           downloads[i].src = downloads[j].src
    /\ \A k \in 1..Len(batches) :
         \A i \in 1..Len(downloads) :
           downloads[i].b = batches[k].id =>
             downloads[i].src = batches[k].file

\* C38: once an FFmpeg export batch has ended, by completion or by a
\* failure, the engine's filesystem holds none of the files the batch wrote:
\* the input and every output have been deleted.
C38_FilesystemClean ==
  (variant = "FF" /\ batches = <<>>) => fs = {}

=============================================================================
